---- MODULE Spec2Model ----
(***************************************************************************)
(* SyncPlay client core of jellyfin-chromecast: the Manager                *)
(* (syncPlayManager.js), the PlaybackCore (syncPlayPlaybackCore) and the   *)
(* QueueCore (syncPlayQueueCore), as a state machine over one event loop.  *)
(* Every action is one event handler run to completion; promise            *)
(* continuations and timer callbacks are handlers of their own.            *)
(***************************************************************************)
EXTENDS Integers, Sequences, FiniteSets, TLC

(* ---- bounds of the model ---- *)
\* length of one step of the local clock, in milliseconds
TimeStep == 1000
\* the local clock runs from 0 to MaxSteps * TimeStep
MaxSteps == 4
\* number of playback commands delivered in one history
MaxCommands == 2
\* number of play queue updates delivered in one history
MaxUpdates == 2

(* ---- program constants ---- *)
TicksPerMillisecond == 10000
minDelaySpeedToSync == 60
maxDelaySpeedToSync == 3000
speedToSyncDuration == 1000
minDelaySkipToSync == 400
minBufferingThresholdMillis == 1000
\* settings read by loadPreferences
useSpeedToSync == TRUE
useSkipToSync == TRUE
enableSyncCorrection == TRUE
\* the preferences loadPreferences finds when the settings hold no other value
DefaultPreferences ==
    [minDelaySpeedToSync |-> minDelaySpeedToSync, maxDelaySpeedToSync |-> maxDelaySpeedToSync,
     speedToSyncDuration |-> speedToSyncDuration, minDelaySkipToSync |-> minDelaySkipToSync,
     useSpeedToSync |-> useSpeedToSync, useSkipToSync |-> useSkipToSync,
     enableSyncCorrection |-> enableSyncCorrection]

\* the stub playbackManager of the playback core
PlayerCurrentTime == 0
PlayerIsPaused == TRUE

\* null for a Date / a time
NoTime == 0 - 1
\* null for a playback command
NoCommand == [Command |-> "None", When |-> NoTime, EmittedAt |-> NoTime,
              PositionTicks |-> 0, PlaylistItemId |-> 0]
\* no play queue update yet: getLastUpdateTime() is 0, the playlist is empty
NoUpdate == [LastUpdate |-> 0, Reason |-> "None", PlaylistItemId |-> 0]

Times == {k * TimeStep : k \in 0..MaxSteps}
\* the remote instants the server stamps messages with
Stamps == {0, TimeStep}
CommandKinds == {"Unpause", "Pause", "Stop", "Seek"}
PlaylistItemIds == {1, 2}
Positions == {0, TimeStep * TicksPerMillisecond}
\* the playback commands the server may send
Commands == [Command : CommandKinds, When : {TimeStep}, EmittedAt : Stamps,
             PositionTicks : Positions, PlaylistItemId : PlaylistItemIds]
\* offsets (remote - local) the time sync may report
Offsets == {0, TimeStep}

\* this.groupInfo: null, or what groupInfo.AccessList holds for the current user
NoGroupInfo == [kind |-> "null", PlaybackAccess |-> FALSE, PlaylistAccess |-> FALSE]
GroupInfos ==
    {[kind |-> k, PlaybackAccess |-> FALSE, PlaylistAccess |-> FALSE] : k \in {"noAccessList", "notListed"}}
    \cup [kind : {"listed"}, PlaybackAccess : BOOLEAN, PlaylistAccess : BOOLEAN]
\* the group info of a user with every access
FullAccess == [kind |-> "listed", PlaybackAccess |-> TRUE, PlaylistAccess |-> TRUE]

VARIABLES
    \* SyncPlayManager
    syncPlayEnabledAt, syncPlayReady, queuedCommand, followingGroupPlayback,
    lastPlaybackCommand, groupJoined,
    groupInfo,           \* the access the group grants the current user
    timeSyncWaiter,      \* a one-shot 'time-sync-server-update' listener of enableSyncPlay is registered
    injected,            \* playbackManager.syncPlayEnabled
    playerWrapper,       \* "none" (default wrapper), "local", "remote"
    wrapperBound,        \* playerWrapper.bound
    isPlayerActive,      \* playerWrapper.isPlayerActive
    \* SyncPlayPlaybackCore
    lastCommand, syncEnabled,
    scheduledTimers, scheduledCommandTimeout,
    syncTimers, syncTimeout,
    notifyTimers, notifyBuffering,
    lastPlaybackWaiting, lastSyncTime,
    hasCurrentPlayer, playbackRateSupported,
    waiters,             \* pending waitForEventOnce promises of the playback core
    \* SyncPlayQueueCore / SyncPlayQueueManager
    lastPlayQueueUpdate, inFlightUpdates, dispatched,
    pendingFollow,       \* followGroupPlayback requests of NewPlaylist updates not yet answered
    pendingPlay,         \* localPlay promises of startPlayback not yet settled
    readyWaiters,        \* deadlines of the pending waits on 'playbackstart'
    \* TimeSyncCore, clock, environment
    timeOffset, now, commandsReceived, updatesReceived,
    pendingItems,        \* requests of the controller that wait for their items to be translated
    prefs,               \* the preferences of the playback core, as loadPreferences left them
    playbackRate,        \* the playback rate of the current player, in thousandths
    bufferingReported,   \* a buffering request with BufferingDone false was sent since the last 'playing'
    \* what the last handler did
    last

mgrVars == <<syncPlayEnabledAt, syncPlayReady, queuedCommand, followingGroupPlayback,
             lastPlaybackCommand, groupJoined, groupInfo, timeSyncWaiter, injected>>
wrapVars == <<playerWrapper, wrapperBound, isPlayerActive>>
coreVars == <<lastCommand, syncEnabled, scheduledTimers, scheduledCommandTimeout,
              syncTimers, syncTimeout, waiters, lastSyncTime, timeOffset>>
bufVars == <<notifyTimers, notifyBuffering, lastPlaybackWaiting>>
rateVars == <<hasCurrentPlayer, playbackRateSupported>>
queueVars == <<lastPlayQueueUpdate, inFlightUpdates, dispatched, pendingFollow, pendingPlay,
               readyWaiters, updatesReceived>>
envVars == <<now, commandsReceived, pendingItems, prefs>>
vars == <<mgrVars, wrapVars, coreVars, bufVars, rateVars, queueVars, envVars, playbackRate, bufferingReported, last>>

(* ---- TimeSyncCore ---- *)
localDateToRemote(offset, t) == t + offset
remoteDateToLocal(offset, t) == t - offset

(* ---- player wrapper ---- *)
\* getPlayerWrapper().isPlaybackActive(): the default wrapper is never bound
IsPlaybackActive ==
    CASE playerWrapper = "remote" -> TRUE
      [] playerWrapper = "local" -> isPlayerActive
      [] OTHER -> FALSE
\* a manager that takes no player for a remote one
IsRemoteNever == FALSE

IsRemote == playerWrapper = "remote"

(* ---- timers ---- *)
Ids(timers) == {t.id : t \in timers}
\* setTimeout returns a handle no pending timer has
NewId(timers) == CHOOSE i \in 1..(Cardinality(timers) + 1) :
                    /\ i \notin Ids(timers)
                    /\ \A j \in 1..(i - 1) : j \in Ids(timers)
clearTimeout(timers, handle) == {t \in timers : t.id # handle}
\* timers that fire whatever their time
DueAtOnce(timers) == timers
\* the timers whose time has come
Due(timers) == {t \in timers : t.at <= now}

(* ---- SyncPlayPlaybackCore, as functions of the core's fields ---- *)
\* the fields of the playback core, the offset of its timeSyncCore and what
\* the running handler has issued: player actions, transport requests, the
\* number of pending timers it cancelled, the messages it showed and the
\* commands whose waits on a player event it resumed
Core == [lastCommand |-> lastCommand, syncEnabled |-> syncEnabled,
         scheduledTimers |-> scheduledTimers, scheduledCommandTimeout |-> scheduledCommandTimeout,
         syncTimers |-> syncTimers, syncTimeout |-> syncTimeout,
         waiters |-> waiters, lastSyncTime |-> lastSyncTime,
         timeOffset |-> timeOffset,
         acts |-> <<>>, reqs |-> <<>>, cancelled |-> 0, messages |-> <<>>, resumed |-> <<>>]

Act(c, a, v) == [c EXCEPT !.acts = Append(@, [a |-> a, v |-> v])]

localUnpause(c) == IF IsPlaybackActive THEN Act(c, "unpause", 0) ELSE c
\* a localPause without the test of isPlaybackActive()
localPauseUnguarded(c) == Act(c, "pause", 0)
localPause(c) == IF IsPlaybackActive THEN Act(c, "pause", 0) ELSE c
localSeek(c, ticks) == IF IsPlaybackActive THEN Act(c, "seek", ticks) ELSE c
localStop(c) == IF IsPlaybackActive THEN Act(c, "stop", 0) ELSE c

\* a player that is never taken for buffering
isBufferingNever == FALSE

isBuffering ==
    IF lastPlaybackWaiting = NoTime THEN FALSE
    ELSE (now - lastPlaybackWaiting) > minBufferingThresholdMillis

sendBufferingRequest(c, buffering) ==
    [c EXCEPT !.reqs = Append(@, [r |-> "buffering", done |-> ~buffering])]

\* null as PositionTicks, and the number JavaScript takes it for in arithmetic
NullTicks == 0 - 1
Number(ticks) == IF ticks = NullTicks THEN 0 ELSE ticks

estimateCurrentTicks(c, ticks, when) ==
    Number(ticks) + (localDateToRemote(c.timeOffset, now) - when) * TicksPerMillisecond

\* a clearScheduledCommand that leaves the pending timers alone
clearScheduledCommandKeepsTimers(c) ==
    LET c1 == [c EXCEPT !.syncEnabled = FALSE]
    IN IF hasCurrentPlayer /\ playbackRateSupported
       THEN Act(c1, "setPlaybackRate", 1000) ELSE c1

clearScheduledCommand(c) ==
    LET scheduled == clearTimeout(c.scheduledTimers, c.scheduledCommandTimeout)
        sync == clearTimeout(c.syncTimers, c.syncTimeout)
        c1 == [c EXCEPT !.scheduledTimers = scheduled,
                        !.syncTimers = sync,
                        !.syncEnabled = FALSE,
                        !.cancelled = @ + Cardinality(c.scheduledTimers \ scheduled)
                                        + Cardinality(c.syncTimers \ sync)]
    IN IF hasCurrentPlayer /\ playbackRateSupported
       THEN Act(c1, "setPlaybackRate", 1000) ELSE c1

\* this.scheduledCommandTimeout = setTimeout(callback, at - now)
ArmScheduled(c, kind, at, ticks) ==
    LET id == NewId(c.scheduledTimers)
    IN [c EXCEPT !.scheduledTimers = @ \cup {[id |-> id, kind |-> kind, at |-> at, pos |-> ticks]},
                 !.scheduledCommandTimeout = id]

\* a syncTimeout timer armed without any delay
ArmSyncAtOnce(c, kind, delay) ==
    LET id == NewId(c.syncTimers)
    IN [c EXCEPT !.syncTimers = @ \cup {[id |-> id, kind |-> kind, at |-> now]},
                 !.syncTimeout = id]

\* this.syncTimeout = setTimeout(callback, delay)
ArmSync(c, kind, delay) ==
    LET id == NewId(c.syncTimers)
    IN [c EXCEPT !.syncTimers = @ \cup {[id |-> id, kind |-> kind, at |-> now + delay]},
                 !.syncTimeout = id]

\* syncPlayHelper.waitForEventOnce(syncPlayManager, event, timeout).then(..).catch(..),
\* registered while `of` is the last command
Wait(c, event, timeout, ticks) ==
    [c EXCEPT !.waiters = Append(@, [event |-> event, pos |-> ticks, of |-> c.lastCommand,
                                     at |-> IF timeout = 0 THEN NoTime ELSE now + timeout])]

WaitForPlayerEventTimeout == 500
WaitForEventDefaultTimeout == 30000

\* the callback of a scheduled unpause
UnpauseCallback(c) == ArmSync(localUnpause(c), "enable", prefs.maxDelaySpeedToSync \div 2)
\* a callback of schedulePause that pauses and waits for nothing
PauseCallbackWithoutWait(c, ticks) == localPause(c)
\* the callback of schedulePause
PauseCallback(c, ticks) == localPause(Wait(c, "pause", WaitForPlayerEventTimeout, ticks))
\* the callback of scheduleStop
StopCallback(c) == localStop(c)
\* a callback of scheduleSeek that seeks before it unpauses
SeekCallbackSeeksFirst(c, ticks) ==
    Wait(localUnpause(localSeek(c, ticks)), "playing", WaitForEventDefaultTimeout, ticks)
\* the callback of scheduleSeek
SeekCallback(c, ticks) ==
    Wait(localSeek(localUnpause(c), ticks), "playing", WaitForEventDefaultTimeout, ticks)

scheduleUnpause(c0, playAtTime, positionTicks) ==
    LET c == clearScheduledCommand(c0)
        playAtTimeLocal == remoteDateToLocal(c.timeOffset, playAtTime)
        currentPositionTicks == PlayerCurrentTime * TicksPerMillisecond
    IN IF playAtTimeLocal > now
       THEN LET c1 == IF (currentPositionTicks - Number(positionTicks)) > prefs.minDelaySkipToSync * TicksPerMillisecond
                      THEN localSeek(c, positionTicks) ELSE c
            IN ArmScheduled(c1, "Unpause", playAtTimeLocal, positionTicks)
       ELSE LET serverPositionTicks == estimateCurrentTicks(c, positionTicks, playAtTime)
            IN ArmSync(localUnpause(Wait(c, "unpause", 0, serverPositionTicks)),
                       "enable", prefs.maxDelaySpeedToSync \div 2)

schedulePause(c0, pauseAtTime, positionTicks) ==
    LET c == clearScheduledCommand(c0)
        pauseAtTimeLocal == remoteDateToLocal(c.timeOffset, pauseAtTime)
    IN IF pauseAtTimeLocal > now
       THEN ArmScheduled(c, "Pause", pauseAtTimeLocal, positionTicks)
       ELSE PauseCallback(c, positionTicks)

scheduleStop(c0, stopAtTime) ==
    LET c == clearScheduledCommand(c0)
        stopAtTimeLocal == remoteDateToLocal(c.timeOffset, stopAtTime)
    IN IF stopAtTimeLocal > now
       THEN ArmScheduled(c, "Stop", stopAtTimeLocal, 0)
       ELSE StopCallback(c)

scheduleSeek(c0, seekAtTime, positionTicks) ==
    LET c == clearScheduledCommand(c0)
        seekAtTimeLocal == remoteDateToLocal(c.timeOffset, seekAtTime)
    IN IF seekAtTimeLocal > now
       THEN ArmScheduled(c, "Seek", seekAtTimeLocal, positionTicks)
       ELSE SeekCallback(c, positionTicks)

\* the switch on command.Command of applyCommand
Dispatch(c, command, ticks) ==
    CASE command.Command = "Unpause" -> scheduleUnpause(c, command.When, ticks)
      [] command.Command = "Pause" -> schedulePause(c, command.When, ticks)
      [] command.Command = "Stop" -> scheduleStop(c, command.When)
      [] command.Command = "Seek" -> scheduleSeek(c, command.When, ticks)
      [] OTHER -> c

\* Math.round((Math.random() - 0.5) * rangeWidth) * TicksPerMillisecond
RandomOffsets == {(0 - 50) * TicksPerMillisecond, 50 * TicksPerMillisecond}
\* the offset is drawn for a Seek only
RandomOffsetsOf(cmd) == IF cmd.Command = "Seek" THEN RandomOffsets ELSE {0}

IsDuplicate(c, command) ==
    /\ c.lastCommand # NoCommand
    /\ c.lastCommand.When = command.When
    /\ c.lastCommand.PositionTicks = command.PositionTicks
    /\ c.lastCommand.Command = command.Command
    /\ c.lastCommand.PlaylistItemId = command.PlaylistItemId

\* a duplicate branch that takes every playback state for a mismatch
PlaybackStateDiffersAlways(command) == TRUE

\* the duplicate branch of applyCommand: the playback state does not match
\* the requested command; the position is compared with !==, and a
\* PositionTicks of null differs from every position
PlaybackStateDiffers(command) ==
    LET currentPositionTicks == PlayerCurrentTime * TicksPerMillisecond
        isPlaying == ~PlayerIsPaused
    IN CASE command.Command = "Unpause" -> ~isPlaying
         [] command.Command = "Pause" -> isPlaying \/ currentPositionTicks # command.PositionTicks
         [] command.Command = "Stop" -> isPlaying
         [] command.Command = "Seek" -> isPlaying \/ currentPositionTicks # command.PositionTicks
         [] OTHER -> FALSE

\* the duplicate branch of applyCommand, for a command whose time is past
RepairDuplicate(c, command, randomOffsetTicks) ==
    CASE command.Command = "Unpause" ->
           IF PlaybackStateDiffers(command)
           THEN scheduleUnpause(c, command.When, command.PositionTicks) ELSE c
      [] command.Command = "Pause" ->
           IF PlaybackStateDiffers(command)
           THEN schedulePause(c, command.When, command.PositionTicks) ELSE c
      [] command.Command = "Stop" ->
           IF PlaybackStateDiffers(command) THEN scheduleStop(c, command.When) ELSE c
      [] command.Command = "Seek" ->
           IF PlaybackStateDiffers(command)
           THEN scheduleSeek(c, command.When, Number(command.PositionTicks) + randomOffsetTicks)
           ELSE sendBufferingRequest(c, FALSE)
      [] OTHER -> c

\* an applyCommand without the check for a duplicate
applyCommandAgain(c, command, randomOffsetTicks) ==
    LET c1 == [c EXCEPT !.lastCommand = command]
    IN IF IsRemote THEN c1
       ELSE Dispatch(c1, command, command.PositionTicks)

applyCommand(c, command, randomOffsetTicks) ==
    IF IsDuplicate(c, command)
    THEN IF remoteDateToLocal(c.timeOffset, command.When) > now
         THEN c
         ELSE RepairDuplicate(c, command, randomOffsetTicks)
    ELSE LET c1 == [c EXCEPT !.lastCommand = command]
         IN IF IsRemote THEN c1
            ELSE Dispatch(c1, command, command.PositionTicks)

\* writes the fields of the playback core back
SetCore(c) ==
    /\ lastCommand' = c.lastCommand
    /\ syncEnabled' = c.syncEnabled
    /\ scheduledTimers' = c.scheduledTimers
    /\ scheduledCommandTimeout' = c.scheduledCommandTimeout
    /\ syncTimers' = c.syncTimers
    /\ syncTimeout' = c.syncTimeout
    /\ waiters' = c.waiters
    /\ lastSyncTime' = c.lastSyncTime
    /\ timeOffset' = c.timeOffset

\* what a handler reports of itself: the command it handed to applyCommand,
\* the player actions and the transport requests it issued, in order, the
\* play queue update it dispatched by reason, the number of pending timers
\* it cancelled, the play queue update it received, the messages it showed
\* and the commands whose waits it resumed; for the controller, the operation
\* that was called; for processCommand, the command it was called with
Last(op, applied, acts, reqs, update) ==
    [op |-> op, applied |-> applied, acts |-> acts, reqs |-> reqs, update |-> update,
     cancelled |-> 0, received |-> NoUpdate, messages |-> <<>>, resumed |-> <<>>,
     call |-> "none", command |-> NoCommand]

\* the playback rate of the player after the player actions of a handler
RECURSIVE RateAfter(_, _)
RateAfter(rate, acts) ==
    IF acts = <<>> THEN rate
    ELSE RateAfter(IF Head(acts).a = "setPlaybackRate" THEN Head(acts).v ELSE rate, Tail(acts))

\* whether a buffering request with BufferingDone false was sent since the
\* last 'playing', after the requests of a handler
ReportedAfter(op, reqs) ==
    IF op = "playing" THEN FALSE
    ELSE bufferingReported \/ \E i \in DOMAIN reqs : reqs[i] = [r |-> "buffering", done |-> FALSE]

Done(op, c, applied) ==
    /\ SetCore(c)
    /\ playbackRate' = RateAfter(playbackRate, c.acts)
    /\ bufferingReported' = ReportedAfter(op, c.reqs)
    /\ last' = [Last(op, applied, c.acts, c.reqs, NoUpdate) EXCEPT !.cancelled = c.cancelled,
                    !.messages = c.messages, !.resumed = c.resumed]

(* ---- SyncPlayQueueManager ---- *)
Reasons == {"NewPlaylist", "SetCurrentItem", "RemoveItems", "Queue", "RepeatMode"}
\* PlaylistItemId 0: the playlist of the update is empty
QueueUpdates == [LastUpdate : {TimeStep + t : t \in Stamps}, Reason : Reasons, PlaylistItemId : {0} \cup PlaylistItemIds]
\* QueueModel.apply(update): an update that is not newer is discarded
apply(model, update) == IF update.LastUpdate <= model.LastUpdate THEN model ELSE update
getLastUpdateTime == lastPlayQueueUpdate.LastUpdate
getCurrentPlaylistItemId == lastPlayQueueUpdate.PlaylistItemId
isPlaylistEmpty == lastPlayQueueUpdate.PlaylistItemId = 0

(* ---- SyncPlayManager ---- *)
\* a manager that takes SyncPlay for enabled at all times
isSyncPlayEnabledAlways == TRUE

isSyncPlayEnabled == syncPlayEnabledAt # NoTime

\* a processCommand without the check of EmittedAt
IsOutdatedNever(cmd) == FALSE

\* the command was emitted before SyncPlay was enabled
IsOutdated(cmd) == cmd.EmittedAt < syncPlayEnabledAt

\* a processCommand that queues whatever the time sync says
MustQueueAlways(ready) == TRUE

\* the time has not been synced yet: the command is queued
MustQueue(ready) == ~ready

\* a processCommand without the check of the playlist item
IsOtherItemNever(cmd) == FALSE

\* the command is for another playlist item than the current one
IsOtherItem(cmd) == cmd.PlaylistItemId # getCurrentPlaylistItemId

\* a processCommand that keeps the command it queued first
processCommandKeepsFirst(c, cmd, ready, randomOffsetTicks) ==
    LET keep == [queued |-> queuedCommand, lastPlayback |-> lastPlaybackCommand,
                 core |-> c, applied |-> NoCommand]
    IN IF cmd = NoCommand THEN keep
       ELSE IF ~isSyncPlayEnabled THEN keep
       ELSE IF IsOutdated(cmd) THEN keep
       ELSE IF MustQueue(ready)
            THEN [keep EXCEPT !.queued = IF queuedCommand = NoCommand THEN cmd ELSE queuedCommand]
       ELSE IF ~IsPlaybackActive THEN [keep EXCEPT !.lastPlayback = cmd]
       ELSE IF IsOtherItem(cmd) THEN [keep EXCEPT !.lastPlayback = cmd]
       ELSE [keep EXCEPT !.lastPlayback = cmd,
                         !.core = applyCommand(c, cmd, randomOffsetTicks),
                         !.applied = cmd]

\* processCommand(cmd) called when this.syncPlayReady has the value ready:
\* the fields it leaves behind
processCommand(c, cmd, ready, randomOffsetTicks) ==
    LET keep == [queued |-> queuedCommand, lastPlayback |-> lastPlaybackCommand,
                 core |-> c, applied |-> NoCommand]
    IN IF cmd = NoCommand THEN keep
       ELSE IF ~isSyncPlayEnabled THEN keep
       ELSE IF IsOutdated(cmd) THEN keep
       ELSE IF MustQueue(ready) THEN [keep EXCEPT !.queued = cmd]
       ELSE IF ~IsPlaybackActive THEN [keep EXCEPT !.lastPlayback = cmd]
       ELSE IF IsOtherItem(cmd) THEN [keep EXCEPT !.lastPlayback = cmd]
       ELSE [keep EXCEPT !.lastPlayback = cmd,
                         !.core = applyCommand(c, cmd, randomOffsetTicks),
                         !.applied = cmd]

\* the conversion of a command that arrives as JSON: a PositionTicks of 0 or
\* none becomes null
ParseCommand(cmd) == [cmd EXCEPT !.PositionTicks = IF @ = 0 THEN NullTicks ELSE @]

\* a SyncPlayCommand message
ProcessCommand(cmd, randomOffsetTicks) ==
    /\ commandsReceived < MaxCommands
    /\ commandsReceived' = commandsReceived + 1
    /\ LET r == processCommand(Core, ParseCommand(cmd), syncPlayReady, randomOffsetTicks)
       IN /\ queuedCommand' = r.queued
          /\ lastPlaybackCommand' = r.lastPlayback
          /\ SetCore(r.core)
          /\ playbackRate' = RateAfter(playbackRate, r.core.acts)
          /\ bufferingReported' = ReportedAfter("processCommand", r.core.reqs)
          /\ last' = [Last("processCommand", r.applied, r.core.acts, r.core.reqs, NoUpdate)
                        EXCEPT !.cancelled = r.core.cancelled, !.messages = r.core.messages,
                               !.resumed = r.core.resumed, !.command = ParseCommand(cmd)]
    /\ UNCHANGED <<syncPlayEnabledAt, syncPlayReady, followingGroupPlayback, groupJoined,
                   groupInfo, timeSyncWaiter, injected, wrapVars, bufVars, rateVars, queueVars, now,
                   pendingItems, prefs>>

\* GroupJoined: enableSyncPlay(apiClient, groupInfo)
EnableSyncPlay(lastUpdatedAt, info) ==
    /\ groupJoined' = TRUE
    /\ groupInfo' = info
    /\ syncPlayEnabledAt' = lastUpdatedAt
    /\ injected' = TRUE
    /\ wrapperBound' = IF playerWrapper # "none" THEN TRUE ELSE wrapperBound
    /\ timeSyncWaiter' = TRUE
    /\ syncPlayReady' = FALSE
    /\ followingGroupPlayback' = TRUE
    /\ UNCHANGED <<playbackRate, bufferingReported>>
    /\ last' = Last("enableSyncPlay", NoCommand, <<>>, <<>>, NoUpdate)
    /\ UNCHANGED <<queuedCommand, lastPlaybackCommand, playerWrapper, isPlayerActive,
                   coreVars, bufVars, rateVars, queueVars, envVars>>

\* NotInGroup / GroupLeft / forkSession: disableSyncPlay()
DisableSyncPlay ==
    /\ syncPlayEnabledAt' = NoTime
    /\ syncPlayReady' = FALSE
    /\ followingGroupPlayback' = TRUE
    /\ lastPlaybackCommand' = NoCommand
    /\ queuedCommand' = NoCommand
    /\ syncEnabled' = FALSE
    /\ injected' = FALSE
    /\ wrapperBound' = FALSE
    /\ UNCHANGED <<playbackRate, bufferingReported>>
    /\ last' = Last("disableSyncPlay", NoCommand, <<>>, <<>>, NoUpdate)
    /\ UNCHANGED <<groupJoined, groupInfo, timeSyncWaiter, playerWrapper, isPlayerActive,
                   lastCommand, scheduledTimers, scheduledCommandTimeout, syncTimers,
                   syncTimeout, waiters, lastSyncTime, timeOffset, bufVars, rateVars,
                   queueVars, envVars>>

\* a continuation that forgets the queued command
ReplayedNothing == NoCommand

\* the command the continuation of enableSyncPlay hands to processCommand
ReplayedCommand == queuedCommand

\* 'time-sync-server-update' of the TimeSyncCore with a new offset, and the
\* continuation that enableSyncPlay registered on it
TimeSyncUpdate(offset, randomOffsetTicks) ==
    LET c == [Core EXCEPT !.timeOffset = offset]
    IN IF timeSyncWaiter
       THEN LET r == processCommand(c, ReplayedCommand, TRUE, randomOffsetTicks)
            IN /\ syncPlayReady' = TRUE
               /\ lastPlaybackCommand' = r.lastPlayback
               /\ queuedCommand' = NoCommand
               /\ timeSyncWaiter' = FALSE
               /\ Done("timeSyncUpdate", r.core, r.applied)
               /\ UNCHANGED <<syncPlayEnabledAt, followingGroupPlayback, groupJoined, groupInfo, injected,
                              wrapVars, bufVars, rateVars, queueVars, envVars>>
       ELSE /\ Done("timeSyncUpdate", c, NoCommand)
            /\ UNCHANGED <<mgrVars, wrapVars, bufVars, rateVars, queueVars, envVars>>

\* 'timeSyncLost' of the TimeSyncCore: no sample arrived within 10 probe
\* intervals; the manager registers one listener on the TimeSyncCore, for
\* 'time-sync-server-update', so no handler of the manager runs
TimeSyncLost ==
    /\ Done("timeSyncLost", Core, NoCommand)
    /\ UNCHANGED <<mgrVars, wrapVars, bufVars, rateVars, queueVars, envVars>>

\* nothing happens for as long as the longest wait on a player event lasts
Idle ==
    /\ now <= MaxSteps * TimeStep
    /\ now' = now + WaitForEventDefaultTimeout
    /\ UNCHANGED <<playbackRate, bufferingReported>>
    /\ last' = Last("tick", NoCommand, <<>>, <<>>, NoUpdate)
    /\ UNCHANGED <<mgrVars, wrapVars, coreVars, bufVars, rateVars, queueVars,
                   commandsReceived, pendingItems, prefs>>

(* ---- timers of the playback core ---- *)
\* a pending scheduled-command timer fires
ScheduledCommandFire(t) ==
    /\ t \in Due(scheduledTimers)
    /\ LET c0 == [Core EXCEPT !.scheduledTimers = @ \ {t}]
           c == CASE t.kind = "Unpause" -> UnpauseCallback(c0)
                  [] t.kind = "Pause" -> PauseCallback(c0, t.pos)
                  [] t.kind = "Stop" -> StopCallback(c0)
                  [] OTHER -> SeekCallback(c0, t.pos)
       IN Done("scheduledCommand", c, NoCommand)
    /\ UNCHANGED <<mgrVars, wrapVars, bufVars, rateVars, queueVars, envVars>>

\* a pending syncTimeout timer fires: sync is enabled (again); after a
\* SpeedToSync the playback rate is restored first
SyncTimeoutFire(t) ==
    /\ t \in Due(syncTimers)
    /\ LET c0 == [Core EXCEPT !.syncTimers = @ \ {t}, !.syncEnabled = TRUE]
           c == IF t.kind = "speed" /\ IsPlaybackActive
                THEN Act(c0, "setPlaybackRate", 1000) ELSE c0
       IN Done("syncTimeout", c, NoCommand)
    /\ UNCHANGED <<mgrVars, wrapVars, bufVars, rateVars, queueVars, envVars>>

\* the timeout of a waitForEventOnce of the playback core rejects the promise
WaitTimeout(i) ==
    /\ i \in 1..Len(waiters)
    /\ waiters[i].at # NoTime
    /\ waiters[i].at <= now
    /\ LET w == waiters[i]
           c0 == [Core EXCEPT !.waiters = SubSeq(waiters, 1, i - 1) \o SubSeq(waiters, i + 1, Len(waiters))]
       IN Done("waitTimeout", localSeek([c0 EXCEPT !.resumed = Append(@, w.of)], w.pos), NoCommand)
    /\ UNCHANGED <<mgrVars, wrapVars, bufVars, rateVars, queueVars, envVars>>

(* ---- player events, delivered while the wrapper is bound ---- *)
RECURSIVE Resolve(_, _, _)
\* the continuations of the waits on event, in the order of registration
Resolve(c, ws, event) ==
    IF ws = <<>> THEN c
    ELSE LET w == Head(ws)
             r == [c EXCEPT !.resumed = Append(@, w.of)]
             c1 == IF w.event # event THEN [c EXCEPT !.waiters = Append(@, w)]
                   ELSE IF event = "playing" THEN sendBufferingRequest(localPause(r), FALSE)
                   ELSE localSeek(r, w.pos)
         IN Resolve(c1, Tail(ws), event)

Trigger(c, event) == Resolve([c EXCEPT !.waiters = <<>>], c.waiters, event)

Bound == wrapperBound /\ playerWrapper # "none"

\* onUnpause / onPause of the wrapper
OnPlayerEvent(event) ==
    /\ Bound
    /\ event \in {"unpause", "pause"}
    /\ Done(event, Trigger(Core, event), NoCommand)
    /\ UNCHANGED <<mgrVars, wrapVars, bufVars, rateVars, queueVars, envVars>>

\* onPlaying
OnPlaying ==
    /\ Bound
    /\ LET c == IF isBuffering THEN sendBufferingRequest(Core, FALSE) ELSE Core
       IN Done("playing", Trigger(c, "playing"), NoCommand)
    /\ notifyTimers' = clearTimeout(notifyTimers, notifyBuffering)
    /\ lastPlaybackWaiting' = NoTime
    /\ UNCHANGED <<mgrVars, wrapVars, notifyBuffering, rateVars, queueVars, envVars>>

\* onWaiting
OnWaiting ==
    /\ Bound
    /\ lastPlaybackWaiting' = IF lastPlaybackWaiting = NoTime THEN now ELSE lastPlaybackWaiting
    /\ LET cleared == clearTimeout(notifyTimers, notifyBuffering)
           id == NewId(cleared)
       IN /\ notifyTimers' = cleared \cup {[id |-> id, kind |-> "notify", at |-> now + minBufferingThresholdMillis]}
          /\ notifyBuffering' = id
          /\ Done("waiting", [Core EXCEPT !.cancelled = Cardinality(notifyTimers \ cleared)],
                  NoCommand)
    /\ UNCHANGED <<mgrVars, wrapVars, rateVars, queueVars, envVars>>

\* the notifyBuffering timer fires: sendBufferingRequest()
NotifyBufferingFire(t) ==
    /\ t \in Due(notifyTimers)
    /\ notifyTimers' = notifyTimers \ {t}
    /\ Done("notifyBuffering", sendBufferingRequest(Core, TRUE), NoCommand)
    /\ UNCHANGED <<mgrVars, wrapVars, notifyBuffering, lastPlaybackWaiting, rateVars,
                   queueVars, envVars>>

\* the local clock advances
Tick ==
    /\ now + TimeStep <= MaxSteps * TimeStep
    /\ now' = now + TimeStep
    /\ UNCHANGED <<playbackRate, bufferingReported>>
    /\ last' = Last("tick", NoCommand, <<>>, <<>>, NoUpdate)
    /\ UNCHANGED <<mgrVars, wrapVars, coreVars, bufVars, rateVars, queueVars, commandsReceived,
                   pendingItems, prefs>>

\* the local clock advances by half a step
Elapse ==
    /\ now + TimeStep \div 2 <= MaxSteps * TimeStep
    /\ now' = now + TimeStep \div 2
    /\ UNCHANGED <<playbackRate, bufferingReported>>
    /\ last' = Last("tick", NoCommand, <<>>, <<>>, NoUpdate)
    /\ UNCHANGED <<mgrVars, wrapVars, coreVars, bufVars, rateVars, queueVars, commandsReceived,
                   pendingItems, prefs>>

(* ---- syncPlaybackTime ---- *)
Abs(x) == IF x < 0 THEN 0 - x ELSE x

\* a SpeedToSync that never stretches its duration
SpeedToSyncStretchedNever(diffMillis, duration) == FALSE

\* diffMillis <= -speedToSyncTime * MinSpeed, with MinSpeed = 0.1
SpeedToSyncStretched(diffMillis, duration) == diffMillis * 10 <= 0 - duration

\* the duration of a SpeedToSync, Math.abs(diffMillis) / (1.0 - MinSpeed) when
\* stretched, as the fraction num / den
SpeedToSyncTime(diffMillis, duration) ==
    IF SpeedToSyncStretched(diffMillis, duration)
    THEN [num |-> Abs(diffMillis) * 10, den |-> 9]
    ELSE [num |-> duration, den |-> 1]

\* the playback rate 1 + diffMillis / speedToSyncTime of a SpeedToSync, in
\* thousandths, rounded down
SpeedToSyncRate(diffMillis, duration) ==
    LET time == SpeedToSyncTime(diffMillis, duration)
    IN (1000 * (time.num + diffMillis * time.den)) \div time.num

\* a selection that still speeds up at maxDelaySpeedToSync
SyncMethodUpToMax(absDiffMillis, rateSupported, p) ==
    IF /\ rateSupported /\ p.useSpeedToSync
       /\ absDiffMillis >= p.minDelaySpeedToSync
       /\ absDiffMillis <= p.maxDelaySpeedToSync
    THEN "SpeedToSync"
    ELSE IF p.useSkipToSync /\ absDiffMillis >= p.minDelaySkipToSync THEN "SkipToSync"
    ELSE "None"

\* the correction syncPlaybackTime selects for a delay
SyncMethod(absDiffMillis, rateSupported, p) ==
    IF /\ rateSupported /\ p.useSpeedToSync
       /\ absDiffMillis >= p.minDelaySpeedToSync
       /\ absDiffMillis < p.maxDelaySpeedToSync
    THEN "SpeedToSync"
    ELSE IF p.useSkipToSync /\ absDiffMillis >= p.minDelaySkipToSync THEN "SkipToSync"
    ELSE "None"

syncPlaybackTime(c) ==
    IF ~IsPlaybackActive THEN c
    ELSE IF c.lastCommand = NoCommand \/ c.lastCommand.Command # "Unpause" \/ isBuffering THEN c
    ELSE IF (now - c.lastSyncTime) * 2 < prefs.maxDelaySpeedToSync THEN c
    ELSE LET c1 == [c EXCEPT !.lastSyncTime = now]
             currentPositionTicks == PlayerCurrentTime * TicksPerMillisecond
             serverPositionTicks == estimateCurrentTicks(c, c.lastCommand.PositionTicks, c.lastCommand.When)
             diffMillis == (serverPositionTicks - currentPositionTicks) \div TicksPerMillisecond
             method == SyncMethod(Abs(diffMillis), playbackRateSupported, prefs)
             time == SpeedToSyncTime(diffMillis, prefs.speedToSyncDuration)
         IN IF ~(c.syncEnabled /\ prefs.enableSyncCorrection) THEN c1
            ELSE CASE method = "SpeedToSync" ->
                        ArmSync([Act(c1, "setPlaybackRate", SpeedToSyncRate(diffMillis, prefs.speedToSyncDuration))
                                   EXCEPT !.syncEnabled = FALSE],
                                "speed", time.num \div time.den)
                   [] method = "SkipToSync" ->
                        ArmSync([localSeek(c1, serverPositionTicks) EXCEPT !.syncEnabled = FALSE],
                                "skip", prefs.maxDelaySpeedToSync \div 2)
                   [] OTHER -> c1

\* onTimeUpdate
OnTimeUpdate ==
    /\ Bound
    /\ Done("timeupdate", syncPlaybackTime(Core), NoCommand)
    /\ UNCHANGED <<mgrVars, wrapVars, bufVars, rateVars, queueVars, envVars>>

(* ---- the player changes, starts and stops ---- *)
\* an onPlayerChange that leaves the rate of the old player as it is
ReleaseRateNever(c) == c

\* onPlayerChange(null) of the playback core: the rate the old player had
\* when it was bound, taken to be 1.0, is set again
ReleaseRate(c) ==
    IF hasCurrentPlayer /\ playbackRateSupported THEN Act(c, "setPlaybackRate", 1000) ELSE c

\* SyncPlayManager.onPlayerChange / bindToPlayer(player); kind "none" is no player
BindToPlayer(kind, rateSupported) ==
    /\ kind \in {"none", "local", "remote"}
    /\ kind = "none" => ~rateSupported
    /\ playerWrapper' = kind
    /\ isPlayerActive' = FALSE
    /\ wrapperBound' = (kind # "none" /\ isSyncPlayEnabled)
    /\ hasCurrentPlayer' = (kind # "none")
    /\ playbackRateSupported' = rateSupported
    /\ Done("bindToPlayer", ReleaseRate(Core), NoCommand)
    /\ UNCHANGED <<mgrVars, bufVars, queueVars, envVars>>

RECURSIVE ReadyReports(_, _)
\* the continuations of n waits on 'playbackstart': local pause, buffering done
ReadyReports(c, n) ==
    IF n = 0 THEN c
    ELSE ReadyReports([Act(c, "pause", 0)
                         EXCEPT !.reqs = Append(@, [r |-> "buffering", done |-> TRUE])], n - 1)

\* 'playbackstart' of the player
OnPlaybackStart ==
    /\ Bound
    /\ isPlayerActive' = TRUE
    /\ readyWaiters' = <<>>
    /\ Done("playbackstart", ReadyReports(Core, Len(readyWaiters)), NoCommand)
    /\ UNCHANGED <<mgrVars, playerWrapper, wrapperBound, bufVars, rateVars,
                   lastPlayQueueUpdate, inFlightUpdates, dispatched, pendingFollow,
                   pendingPlay, updatesReceived, envVars>>

\* 'playbackstop' of the player: onPlaybackStop releases the current player
OnPlaybackStop ==
    /\ Bound
    /\ isPlayerActive' = FALSE
    /\ playerWrapper' = "none"
    /\ wrapperBound' = FALSE
    /\ hasCurrentPlayer' = FALSE
    /\ playbackRateSupported' = FALSE
    /\ Done("playbackstop", ReleaseRate([Core EXCEPT !.lastCommand = NoCommand]), NoCommand)
    /\ UNCHANGED <<mgrVars, bufVars, queueVars, envVars>>

(* ---- SyncPlayQueueCore ---- *)
\* haltGroupPlayback
haltGroupPlayback(c) ==
    localStop([c EXCEPT !.reqs = Append(@, [r |-> "setIgnoreWait", done |-> TRUE])])

\* an updatePlayQueue that lets an update of the same LastUpdate through
IsStaleUpdateOnlyOlder(newPlayQueue) == newPlayQueue.LastUpdate < getLastUpdateTime

\* the update is not newer than the last one applied: it is ignored
IsStaleUpdate(newPlayQueue) == newPlayQueue.LastUpdate <= getLastUpdateTime

\* a continuation without the check for a newer update
IsSupersededNever(newPlayQueue) == FALSE

\* a newer update was applied while this one was being applied
IsSuperseded(newPlayQueue) == newPlayQueue.LastUpdate < getLastUpdateTime

\* a PlayQueue group update: updatePlayQueue up to the call of onPlayQueueUpdate,
\* which answers later; atOnce: the QueueModel takes the update during the
\* call, otherwise when it answers
UpdatePlayQueue(newPlayQueue, atOnce) ==
    /\ updatesReceived < MaxUpdates
    /\ updatesReceived' = updatesReceived + 1
    /\ IF IsStaleUpdate(newPlayQueue)
       THEN UNCHANGED <<lastPlayQueueUpdate, inFlightUpdates>>
       ELSE /\ lastPlayQueueUpdate' = IF atOnce THEN apply(lastPlayQueueUpdate, newPlayQueue)
                                      ELSE lastPlayQueueUpdate
            /\ inFlightUpdates' = Append(inFlightUpdates, [update |-> newPlayQueue, saved |-> atOnce])
    /\ SetCore(Core)
    /\ UNCHANGED <<playbackRate, bufferingReported>>
    /\ last' = [Last("updatePlayQueue", NoCommand, <<>>, <<>>, NoUpdate) EXCEPT !.received = newPlayQueue]
    /\ UNCHANGED <<mgrVars, wrapVars, bufVars, rateVars, dispatched, pendingFollow,
                   pendingPlay, readyWaiters, envVars>>

\* startPlayback
startPlayback(q) ==
    IF q.model.PlaylistItemId = 0 THEN q
    ELSE [q EXCEPT !.c = Act(@, "play", q.model.PlaylistItemId), !.play = @ + 1]

\* localSetCurrentPlaylistItem
localSetCurrentPlaylistItem(q, playlistItemId) ==
    IF ~q.following THEN q
    ELSE [q EXCEPT !.ready = Append(@, now + WaitForEventDefaultTimeout),
                   !.c = Act(@, "setCurrentPlaylistItem", playlistItemId)]

\* the switch on newPlayQueue.Reason; moved: getRealPlaylistItemId() differs
\* from getCurrentPlaylistItemId()
DispatchUpdate(q, reason, moved) ==
    CASE reason = "NewPlaylist" ->
            IF ~q.following
            THEN [q EXCEPT !.following = TRUE, !.follow = @ + 1,
                           !.c.reqs = Append(@, [r |-> "setIgnoreWait", done |-> FALSE])]
            ELSE startPlayback(q)
      [] reason = "SetCurrentItem" -> localSetCurrentPlaylistItem(q, q.model.PlaylistItemId)
      [] reason = "RemoveItems" ->
            IF moved THEN localSetCurrentPlaylistItem(q, q.model.PlaylistItemId) ELSE q
      [] reason = "RepeatMode" -> [q EXCEPT !.c = Act(@, "setRepeatMode", 0)]
      [] OTHER -> q

\* the fields the queue core works on, and the QueueModel it reads
Queue == [c |-> Core, following |-> followingGroupPlayback, follow |-> pendingFollow,
          play |-> pendingPlay, ready |-> readyWaiters, model |-> lastPlayQueueUpdate]

SetQueue(q) ==
    /\ followingGroupPlayback' = q.following
    /\ pendingFollow' = q.follow
    /\ pendingPlay' = q.play
    /\ readyWaiters' = q.ready

\* onPlayQueueUpdate of the i-th update in flight answers: the QueueModel
\* takes the update if it has not yet, and discards it if it is not newer;
\* then the continuation of updatePlayQueue runs
PlayQueueUpdated(i, moved) ==
    /\ i \in 1..Len(inFlightUpdates)
    /\ LET newPlayQueue == inFlightUpdates[i].update
           saved == inFlightUpdates[i].saved
           rest == SubSeq(inFlightUpdates, 1, i - 1) \o SubSeq(inFlightUpdates, i + 1, Len(inFlightUpdates))
           discarded == ~saved /\ newPlayQueue.LastUpdate <= getLastUpdateTime
           superseded == saved /\ IsSuperseded(newPlayQueue)
           model == IF saved THEN lastPlayQueueUpdate ELSE apply(lastPlayQueueUpdate, newPlayQueue)
       IN /\ inFlightUpdates' = rest
          /\ lastPlayQueueUpdate' = model
          /\ IF discarded \/ superseded \/ IsRemote
             THEN /\ Done("playQueueUpdated", Core, NoCommand)
                  /\ UNCHANGED <<followingGroupPlayback, pendingFollow, pendingPlay,
                                 readyWaiters, dispatched>>
             ELSE LET q == DispatchUpdate([Queue EXCEPT !.model = model], newPlayQueue.Reason, moved)
                  IN /\ SetQueue(q)
                     /\ SetCore(q.c)
                     /\ playbackRate' = RateAfter(playbackRate, q.c.acts)
                     /\ UNCHANGED bufferingReported
                     /\ last' = Last("playQueueUpdated", NoCommand, q.c.acts, q.c.reqs, newPlayQueue)
                     /\ dispatched' = Append(dispatched, newPlayQueue.LastUpdate)
    /\ UNCHANGED <<syncPlayEnabledAt, syncPlayReady, queuedCommand, lastPlaybackCommand,
                   groupJoined, groupInfo, timeSyncWaiter, injected, wrapVars, bufVars, rateVars,
                   updatesReceived, envVars>>

\* the followGroupPlayback request of a NewPlaylist update is answered
FollowAnswered ==
    /\ pendingFollow > 0
    /\ LET q == startPlayback([Queue EXCEPT !.follow = @ - 1])
       IN /\ SetQueue(q)
          /\ Done("followAnswered", q.c, NoCommand)
    /\ UNCHANGED <<syncPlayEnabledAt, syncPlayReady, queuedCommand, lastPlaybackCommand,
                   groupJoined, groupInfo, timeSyncWaiter, injected, wrapVars, bufVars, rateVars,
                   lastPlayQueueUpdate, inFlightUpdates, dispatched, updatesReceived, envVars>>

\* the localPlay promise of startPlayback settles; fulfilled, it registers
\* the wait on 'playbackstart'
PlaySettled(fulfilled) ==
    /\ pendingPlay > 0
    /\ pendingPlay' = pendingPlay - 1
    /\ readyWaiters' = IF fulfilled THEN Append(readyWaiters, now + WaitForEventDefaultTimeout)
                       ELSE readyWaiters
    /\ Done("playSettled", Core, NoCommand)
    /\ UNCHANGED <<mgrVars, wrapVars, bufVars, rateVars, lastPlayQueueUpdate, inFlightUpdates,
                   dispatched, pendingFollow, updatesReceived, envVars>>

\* a wait on 'playbackstart' is rejected, by 'playbackerror' or by its timeout
ReadyRejected(i, byError) ==
    /\ i \in 1..Len(readyWaiters)
    /\ byError \/ readyWaiters[i] <= now
    /\ readyWaiters' = SubSeq(readyWaiters, 1, i - 1) \o SubSeq(readyWaiters, i + 1, Len(readyWaiters))
    /\ followingGroupPlayback' = FALSE
    /\ Done("readyRejected", haltGroupPlayback(Core), NoCommand)
    /\ UNCHANGED <<syncPlayEnabledAt, syncPlayReady, queuedCommand, lastPlaybackCommand,
                   groupJoined, groupInfo, timeSyncWaiter, injected, wrapVars, bufVars, rateVars,
                   lastPlayQueueUpdate, inFlightUpdates, dispatched, pendingFollow,
                   pendingPlay, updatesReceived, envVars>>

\* haltGroupPlayback() of the manager, called for the user
HaltGroupPlayback ==
    /\ followingGroupPlayback' = FALSE
    /\ Done("haltGroupPlayback", haltGroupPlayback(Core), NoCommand)
    /\ UNCHANGED <<syncPlayEnabledAt, syncPlayReady, queuedCommand, lastPlaybackCommand,
                   groupJoined, groupInfo, timeSyncWaiter, injected, wrapVars, bufVars, rateVars,
                   lastPlayQueueUpdate, inFlightUpdates, dispatched, pendingFollow,
                   pendingPlay, readyWaiters, updatesReceived, envVars>>

(* ---- SyncPlayController ---- *)
\* a manager that grants every user playback access
hasPlaybackAccessAlways == TRUE

\* hasPlaybackAccess() of the manager, for the current user
hasPlaybackAccess == IF groupInfo.kind = "listed" THEN groupInfo.PlaybackAccess ELSE FALSE

\* a manager that grants every user playlist access
hasPlaylistAccessAlways == TRUE

\* hasPlaylistAccess() of the manager, for the current user
hasPlaylistAccess == IF groupInfo.kind = "listed" THEN groupInfo.PlaylistAccess ELSE FALSE

\* isPlaying() of the manager
isPlaying == lastPlaybackCommand # NoCommand /\ lastPlaybackCommand.Command = "Unpause"

\* syncPlayHelper.showMessage(manager, key): the 'show-message' event
showMessage(c, key) == [c EXCEPT !.messages = Append(@, key)]

\* a request of the apiClient
Request(c, name) == [c EXCEPT !.reqs = Append(@, [r |-> name, done |-> FALSE])]

\* localPause() of the player wrapper; the generic wrapper does nothing
wrapperLocalPause(c) == IF playerWrapper = "none" THEN c ELSE Act(c, "pause", 0)

ControllerOps == {"playPause", "unpause", "pause", "seek", "play", "setCurrentPlaylistItem",
                  "removeFromPlaylist", "movePlaylistItem", "queue", "queueNext", "nextTrack",
                  "previousTrack", "setRepeatMode", "setShuffleMode", "toggleShuffleMode"}

\* the operations of the controller, on the playback core's record c and the
\* requests that wait for their items; hasItems: options.items is given,
\* otherwise the items are fetched by their ids first
SyncPlayController(k, op, hasItems) ==
    LET playback(granted) == IF ~hasPlaybackAccess
                             THEN [k EXCEPT !.c = showMessage(@, "MessageSyncPlayMissingPlaybackAccess")]
                             ELSE granted
        playlist(granted) == IF ~hasPlaylistAccess
                             THEN [k EXCEPT !.c = showMessage(@, "MessageSyncPlayMissingPlaylistAccess")]
                             ELSE granted
        send(name) == [k EXCEPT !.c = Request(@, name)]
        later(name) == [k EXCEPT !.items = Append(@, [request |-> name,
                                                      hops |-> IF hasItems THEN 1 ELSE 2])]
    IN CASE op = "unpause" \/ (op = "playPause" /\ ~isPlaying) -> playback(send("Unpause"))
         [] op = "pause" \/ (op = "playPause" /\ isPlaying) ->
                playback([k EXCEPT !.c = wrapperLocalPause(Request(@, "Pause"))])
         [] op = "seek" -> playback(send("Seek"))
         [] op = "play" -> playlist(later("Play"))
         [] op = "setCurrentPlaylistItem" -> playback(send("SetPlaylistItem"))
         [] op = "removeFromPlaylist" -> playlist(send("RemoveFromPlaylist"))
         [] op = "movePlaylistItem" -> playlist(send("MovePlaylistItem"))
         [] op = "queue" -> playlist(later("Queue"))
         [] op = "queueNext" -> playlist(later("QueueNext"))
         [] op = "nextTrack" -> playback(send("NextTrack"))
         [] op = "previousTrack" -> playback(send("PreviousTrack"))
         [] op = "setRepeatMode" -> playlist(send("SetRepeatMode"))
         [] op = "setShuffleMode" -> playlist(send("SetShuffleMode"))
         [] op = "toggleShuffleMode" -> playlist(send("SetShuffleMode"))
         [] OTHER -> k

\* an operation of the controller is called
ControllerCall(op, hasItems) ==
    /\ op \in ControllerOps
    /\ Len(pendingItems) < MaxCommands
    /\ LET k == SyncPlayController([c |-> Core, items |-> pendingItems], op, hasItems)
       IN /\ pendingItems' = k.items
          /\ SetCore(k.c)
          /\ playbackRate' = RateAfter(playbackRate, k.c.acts)
          /\ UNCHANGED bufferingReported
          /\ last' = [Last("controller", NoCommand, k.c.acts, k.c.reqs, NoUpdate)
                        EXCEPT !.messages = k.c.messages, !.call = op]
    /\ UNCHANGED <<mgrVars, wrapVars, bufVars, rateVars, queueVars, now, commandsReceived, prefs>>

\* getItemsForPlayback or translateItemsForPlayback answers for the i-th
\* waiting request: the request is sent once its items are translated
ItemsTranslated(i) ==
    /\ i \in 1..Len(pendingItems)
    /\ LET item == pendingItems[i]
           rest == SubSeq(pendingItems, 1, i - 1) \o SubSeq(pendingItems, i + 1, Len(pendingItems))
       IN IF item.hops > 1
          THEN /\ pendingItems' = [pendingItems EXCEPT ![i].hops = @ - 1]
               /\ Done("itemsFetched", Core, NoCommand)
          ELSE /\ pendingItems' = rest
               /\ Done("itemsTranslated", Request(Core, item.request), NoCommand)
    /\ UNCHANGED <<mgrVars, wrapVars, bufVars, rateVars, queueVars, now, commandsReceived, prefs>>

\* a GroupUpdate group update: this.groupInfo = cmd.Data
GroupUpdate(info) ==
    /\ groupInfo' = info
    /\ SetCore(Core)
    /\ UNCHANGED <<playbackRate, bufferingReported>>
    /\ last' = Last("groupUpdate", NoCommand, <<>>, <<>>, NoUpdate)
    /\ UNCHANGED <<syncPlayEnabledAt, syncPlayReady, queuedCommand, followingGroupPlayback,
                   lastPlaybackCommand, groupJoined, timeSyncWaiter, injected,
                   wrapVars, bufVars, rateVars, queueVars, envVars>>

(* ---- the state machine ---- *)
Init ==
    /\ syncPlayEnabledAt = NoTime
    /\ syncPlayReady = FALSE
    /\ queuedCommand = NoCommand
    /\ followingGroupPlayback = TRUE
    /\ lastPlaybackCommand = NoCommand
    /\ groupJoined = FALSE
    /\ groupInfo = NoGroupInfo
    /\ timeSyncWaiter = FALSE
    /\ injected = FALSE
    /\ playerWrapper = "none"
    /\ wrapperBound = FALSE
    /\ isPlayerActive = FALSE
    /\ lastCommand = NoCommand
    /\ syncEnabled = FALSE
    /\ scheduledTimers = {}
    /\ scheduledCommandTimeout = 0
    /\ syncTimers = {}
    /\ syncTimeout = 0
    /\ notifyTimers = {}
    /\ notifyBuffering = 0
    /\ lastPlaybackWaiting = NoTime
    /\ lastSyncTime = 0
    /\ hasCurrentPlayer = FALSE
    /\ playbackRateSupported = FALSE
    /\ waiters = <<>>
    /\ lastPlayQueueUpdate = NoUpdate
    /\ inFlightUpdates = <<>>
    /\ dispatched = <<>>
    /\ pendingFollow = 0
    /\ pendingPlay = 0
    /\ readyWaiters = <<>>
    /\ timeOffset = 0
    /\ now = 0
    /\ commandsReceived = 0
    /\ updatesReceived = 0
    /\ pendingItems = <<>>
    /\ prefs = DefaultPreferences
    /\ playbackRate = 1000
    /\ bufferingReported = FALSE
    /\ last = Last("init", NoCommand, <<>>, <<>>, NoUpdate)

\* the playback commands of the manager's histories
ManagerCommands == {cmd \in Commands : cmd.Command \in {"Pause", "Stop"} /\ cmd.PositionTicks = 0}
\* the playback commands of the playback core's histories: one session, one item
PlaybackCommands == {cmd \in Commands : cmd.EmittedAt = TimeStep /\ cmd.PlaylistItemId = 1}
\* the playback commands of the timers' histories
TimerCommands == {cmd \in PlaybackCommands : cmd.PositionTicks = 0}
\* play queue updates that leave the player alone
QuietUpdates == {u \in QueueUpdates : u.Reason = "Queue" /\ u.PlaylistItemId # 0 /\ u.LastUpdate = TimeStep}
\* the play queue update a session in progress has applied
FirstUpdate == [LastUpdate |-> TimeStep, Reason |-> "Queue", PlaylistItemId |-> 1]

\* the Manager: group updates, time sync and playback commands
NextManager ==
    \/ \E cmd \in ManagerCommands : ProcessCommand(cmd, 0)
    \/ \E t \in Stamps : EnableSyncPlay(t, FullAccess)
    \/ DisableSyncPlay
    \/ \E o \in Offsets : TimeSyncUpdate(o, 0)
    \/ BindToPlayer("local", FALSE)
    \/ OnPlaybackStart
    \/ \E u \in QuietUpdates : UpdatePlayQueue(u, TRUE)
    \/ \E i \in 1..Len(inFlightUpdates) : PlayQueueUpdated(i, FALSE)

SpecManager == Init /\ [][NextManager]_vars

\* the Manager while the time sync is lost and found again
NextTimeSync ==
    \/ \E cmd \in ManagerCommands : ProcessCommand(cmd, 0)
    \/ \E t \in Stamps : EnableSyncPlay(t, FullAccess)
    \/ DisableSyncPlay
    \/ \E o \in Offsets : TimeSyncUpdate(o, 0)
    \/ TimeSyncLost
    \/ BindToPlayer("local", FALSE)
    \/ OnPlaybackStart
    \/ \E u \in QuietUpdates : UpdatePlayQueue(u, TRUE)
    \/ \E i \in 1..Len(inFlightUpdates) : PlayQueueUpdated(i, FALSE)

SpecTimeSync == Init /\ [][NextTimeSync]_vars

\* a session in progress: SyncPlay was enabled, a player was bound, a play
\* queue update was applied, playback started and the time was synced
InitPlayback ==
    /\ syncPlayEnabledAt = 0
    /\ syncPlayReady = TRUE
    /\ queuedCommand = NoCommand
    /\ followingGroupPlayback = TRUE
    /\ lastPlaybackCommand = NoCommand
    /\ groupJoined = TRUE
    /\ groupInfo = FullAccess
    /\ timeSyncWaiter = FALSE
    /\ injected = TRUE
    /\ playerWrapper \in {"local", "remote"}
    /\ wrapperBound = TRUE
    /\ isPlayerActive = TRUE
    /\ lastCommand = NoCommand
    /\ syncEnabled = FALSE
    /\ scheduledTimers = {}
    /\ scheduledCommandTimeout = 0
    /\ syncTimers = {}
    /\ syncTimeout = 0
    /\ notifyTimers = {}
    /\ notifyBuffering = 0
    /\ lastPlaybackWaiting = NoTime
    /\ lastSyncTime = 0
    /\ hasCurrentPlayer = TRUE
    /\ playbackRateSupported \in BOOLEAN
    /\ waiters = <<>>
    /\ lastPlayQueueUpdate = FirstUpdate
    /\ inFlightUpdates = <<>>
    /\ dispatched = IF playerWrapper = "remote" THEN <<>> ELSE <<FirstUpdate.LastUpdate>>
    /\ pendingFollow = 0
    /\ pendingPlay = 0
    /\ readyWaiters = <<>>
    /\ timeOffset = 0
    /\ now = 0
    /\ commandsReceived = 0
    /\ updatesReceived = 1
    /\ pendingItems = <<>>
    /\ prefs = DefaultPreferences
    /\ playbackRate = 1000
    /\ bufferingReported = FALSE
    /\ last = Last("timeSyncUpdate", NoCommand, <<>>, <<>>, NoUpdate)

\* the handlers that lead from Init to InitPlayback
NextSession ==
    \/ EnableSyncPlay(0, FullAccess)
    \/ \E k \in {"local", "remote"}, rs \in BOOLEAN : BindToPlayer(k, rs)
    \/ UpdatePlayQueue(FirstUpdate, TRUE)
    \/ \E i \in 1..Len(inFlightUpdates) : PlayQueueUpdated(i, FALSE)
    \/ OnPlaybackStart
    \/ TimeSyncUpdate(0, 0)

SpecSession == Init /\ [][NextSession]_vars

\* the PlaybackCore: commands, their timers, player events, the session's end
NextPlayback ==
    \/ \E cmd \in PlaybackCommands : \E r \in RandomOffsetsOf(cmd) : ProcessCommand(cmd, r)
    \/ EnableSyncPlay(0, FullAccess)
    \/ DisableSyncPlay
    \/ \E r \in RandomOffsets : TimeSyncUpdate(0, r)
    \/ \E t \in scheduledTimers : ScheduledCommandFire(t)
    \/ \E t \in syncTimers : SyncTimeoutFire(t)
    \/ \E i \in 1..Len(waiters) : WaitTimeout(i)
    \/ \E e \in {"unpause", "pause"} : OnPlayerEvent(e)
    \/ OnPlaying
    \/ OnTimeUpdate
    \/ Tick

SpecPlayback == InitPlayback /\ [][NextPlayback]_vars

\* repeated and superseded commands: commands, their timers and waits, the
\* player cast to a remote one or back, and started
NextCommands ==
    \/ \E cmd \in PlaybackCommands : \E r \in RandomOffsetsOf(cmd) : ProcessCommand(cmd, r)
    \/ \E k \in {"local", "remote"} : BindToPlayer(k, FALSE)
    \/ OnPlaybackStart
    \/ \E t \in scheduledTimers : ScheduledCommandFire(t)
    \/ \E t \in syncTimers : SyncTimeoutFire(t)
    \/ \E i \in 1..Len(waiters) : WaitTimeout(i)
    \/ \E e \in {"unpause", "pause"} : OnPlayerEvent(e)
    \/ OnPlaying
    \/ Tick

SpecCommands == InitPlayback /\ [][NextCommands]_vars

\* commands whose timers and waits outlive the playback: the player stops,
\* and a player is bound and started again
NextStop ==
    \/ \E cmd \in PlaybackCommands : \E r \in RandomOffsetsOf(cmd) : ProcessCommand(cmd, r)
    \/ \E t \in scheduledTimers : ScheduledCommandFire(t)
    \/ \E t \in syncTimers : SyncTimeoutFire(t)
    \/ \E i \in 1..Len(waiters) : WaitTimeout(i)
    \/ \E e \in {"unpause", "pause"} : OnPlayerEvent(e)
    \/ OnPlaying
    \/ OnTimeUpdate
    \/ OnPlaybackStop
    \/ BindToPlayer("local", FALSE)
    \/ OnPlaybackStart
    \/ Tick

SpecStop == InitPlayback /\ [][NextStop]_vars

\* the scheduling of commands: commands, corrections of the time offset,
\* the timers of the commands and of the sync, the player events
NextSchedule ==
    \/ \E cmd \in PlaybackCommands : \E r \in RandomOffsetsOf(cmd) : ProcessCommand(cmd, r)
    \/ \E o \in Offsets : TimeSyncUpdate(o, 0)
    \/ \E t \in scheduledTimers : ScheduledCommandFire(t)
    \/ \E t \in syncTimers : SyncTimeoutFire(t)
    \/ \E i \in 1..Len(waiters) : WaitTimeout(i)
    \/ \E e \in {"unpause", "pause"} : OnPlayerEvent(e)
    \/ OnPlaying
    \/ Tick
    \/ Idle

SpecSchedule == InitPlayback /\ [][NextSchedule]_vars

\* the timers of the PlaybackCore: commands, drift correction, buffering
NextTimers ==
    \/ \E cmd \in TimerCommands : \E r \in RandomOffsetsOf(cmd) : ProcessCommand(cmd, r)
    \/ \E t \in scheduledTimers : ScheduledCommandFire(t)
    \/ \E t \in syncTimers : SyncTimeoutFire(t)
    \/ OnTimeUpdate
    \/ OnPlaying
    \/ OnWaiting
    \/ \E t \in notifyTimers : NotifyBufferingFire(t)
    \/ Tick

SpecTimers == InitPlayback /\ [][NextTimers]_vars

\* the play queue updates of the histories of overlapping applications
OverlappingUpdates == {u \in QueueUpdates : u.PlaylistItemId \in {0, 1}}

\* play queue updates whose applications overlap
NextUpdates ==
    \/ \E u \in OverlappingUpdates, atOnce \in BOOLEAN : UpdatePlayQueue(u, atOnce)
    \/ \E i \in 1..Len(inFlightUpdates), m \in BOOLEAN : PlayQueueUpdated(i, m)
    \/ \E k \in {"local", "remote"} : BindToPlayer(k, FALSE)

SpecUpdates == Init /\ [][NextUpdates]_vars

\* the QueueCore: play queue updates and what they start
NextQueue ==
    \/ EnableSyncPlay(0, FullAccess)
    \/ DisableSyncPlay
    \/ \E k \in {"local", "remote"} : BindToPlayer(k, FALSE)
    \/ OnPlaybackStart
    \/ \E u \in QueueUpdates, atOnce \in BOOLEAN : UpdatePlayQueue(u, atOnce)
    \/ \E i \in 1..Len(inFlightUpdates), m \in BOOLEAN : PlayQueueUpdated(i, m)
    \/ FollowAnswered
    \/ \E f \in BOOLEAN : PlaySettled(f)
    \/ \E i \in 1..Len(readyWaiters), e \in BOOLEAN : ReadyRejected(i, e)
    \/ HaltGroupPlayback

SpecQueue == Init /\ [][NextQueue]_vars

\* the playback commands of the controller's histories
ControllerCommands == {cmd \in PlaybackCommands : cmd.Command \in {"Unpause", "Pause"} /\ cmd.PositionTicks = 0}

\* the controller: its operations under every access the group may grant
NextController ==
    \/ \E op \in ControllerOps, hasItems \in BOOLEAN : ControllerCall(op, hasItems)
    \/ \E i \in 1..Len(pendingItems) : ItemsTranslated(i)
    \/ \E info \in GroupInfos : GroupUpdate(info)
    \/ \E info \in GroupInfos : EnableSyncPlay(0, info)
    \/ TimeSyncUpdate(0, 0)
    \/ \E cmd \in ControllerCommands : ProcessCommand(cmd, 0)
    \/ BindToPlayer("local", FALSE)

SpecController == Init /\ [][NextController]_vars

\* the preferences of the drift histories: the defaults, the thresholds the
\* server connection sets, a speed threshold above the skip threshold, short
\* and long speed-up durations, every combination of the two methods
DriftPreferences ==
    [minDelaySpeedToSync : {minDelaySpeedToSync, 500}, maxDelaySpeedToSync : {maxDelaySpeedToSync},
     speedToSyncDuration : {1, 500, speedToSyncDuration, 5000},
     minDelaySkipToSync : {minDelaySkipToSync, 60000},
     useSpeedToSync : BOOLEAN, useSkipToSync : BOOLEAN, enableSyncCorrection : BOOLEAN]

\* the delays of the drift histories, behind and ahead of the group, at and
\* next to every threshold of the preferences p
DriftDelays(p) ==
    LET sizes == {0, p.minDelaySpeedToSync - 1, p.minDelaySpeedToSync,
                  p.minDelaySkipToSync - 1, p.minDelaySkipToSync,
                  p.maxDelaySpeedToSync - 1, p.maxDelaySpeedToSync, p.maxDelaySpeedToSync + 1,
                  p.speedToSyncDuration \div 10, p.speedToSyncDuration \div 10 + 1}
    IN sizes \cup {0 - d : d \in sizes}

\* a session that plays since an Unpause whose time is past, sync enabled:
\* the player, which reports position 0, is behind or ahead of the group by
\* one of the delays
InitDrift ==
    /\ syncPlayEnabledAt = 0
    /\ syncPlayReady = TRUE
    /\ queuedCommand = NoCommand
    /\ followingGroupPlayback = TRUE
    /\ groupJoined = TRUE
    /\ groupInfo = FullAccess
    /\ timeSyncWaiter = FALSE
    /\ injected = TRUE
    /\ playerWrapper = "local"
    /\ wrapperBound = TRUE
    /\ isPlayerActive = TRUE
    /\ prefs \in DriftPreferences
    /\ playbackRate = 1000
    /\ bufferingReported = FALSE
    /\ now = 2 * TimeStep
    /\ \E d \in DriftDelays(prefs) :
          lastCommand = [Command |-> "Unpause", When |-> now - d, EmittedAt |-> TimeStep,
                         PositionTicks |-> NullTicks, PlaylistItemId |-> 1]
    /\ lastPlaybackCommand = lastCommand
    /\ syncEnabled = TRUE
    /\ scheduledTimers = {}
    /\ scheduledCommandTimeout = 0
    /\ syncTimers = {}
    /\ syncTimeout = 0
    /\ notifyTimers = {}
    /\ notifyBuffering = 0
    /\ lastPlaybackWaiting = NoTime
    /\ lastSyncTime = 0
    /\ hasCurrentPlayer = TRUE
    /\ playbackRateSupported \in BOOLEAN
    /\ waiters = <<>>
    /\ lastPlayQueueUpdate = FirstUpdate
    /\ inFlightUpdates = <<>>
    /\ dispatched = <<FirstUpdate.LastUpdate>>
    /\ pendingFollow = 0
    /\ pendingPlay = 0
    /\ readyWaiters = <<>>
    /\ timeOffset = 0
    /\ commandsReceived = 1
    /\ updatesReceived = 1
    /\ pendingItems = <<>>
    /\ last = Last("syncTimeout", NoCommand, <<>>, <<>>, NoUpdate)

\* drift correction: time updates of the player and the syncTimeout timers
NextDrift ==
    \/ OnTimeUpdate
    \/ \E t \in syncTimers : SyncTimeoutFire(t)
    \/ Tick

SpecDrift == InitDrift /\ [][NextDrift]_vars

\* the preferences of the histories of corrections: the default thresholds,
\* two durations of the speed-up, SpeedToSync and the correction on or off
CorrectionPreferences ==
    {p \in DriftPreferences :
        /\ p.minDelaySpeedToSync = minDelaySpeedToSync
        /\ p.minDelaySkipToSync = minDelaySkipToSync
        /\ p.speedToSyncDuration \in {500, speedToSyncDuration}
        /\ p.useSkipToSync}

\* a session that plays, behind the group by a delay that SpeedToSync or
\* SkipToSync corrects
InitCorrection ==
    /\ InitDrift
    /\ prefs \in CorrectionPreferences
    /\ now - lastCommand.When \in {prefs.maxDelaySpeedToSync - 1, prefs.maxDelaySpeedToSync}

\* drift correction while the player buffers, is replaced and started, and
\* while a command arrives; the time of every command is past, so each is
\* applied at once
NextCorrection ==
    \/ OnTimeUpdate
    \/ \E t \in syncTimers : SyncTimeoutFire(t)
    \/ Tick
    \/ OnWaiting
    \/ OnPlaying
    \/ \E t \in notifyTimers : NotifyBufferingFire(t)
    \/ \E cmd \in TimerCommands : ProcessCommand(cmd, 0)
    \/ \E k \in {"local", "remote"} : BindToPlayer(k, playbackRateSupported)
    \/ OnPlaybackStart
    \/ OnPlaybackStop

SpecCorrection == InitCorrection /\ [][NextCorrection]_vars

\* buffering: the player waits and plays, the notifyBuffering timer, and a
\* Seek that waits for 'playing'
NextBuffering ==
    \/ OnWaiting
    \/ OnPlaying
    \/ \E t \in notifyTimers : NotifyBufferingFire(t)
    \/ \E cmd \in TimerCommands : \E r \in RandomOffsets :
          cmd.Command = "Seek" /\ ProcessCommand(cmd, r)
    \/ \E t \in scheduledTimers : ScheduledCommandFire(t)
    \/ Elapse

SpecBuffering == InitPlayback /\ [][NextBuffering]_vars

\* the session in progress is a state the handlers reach from Init
SessionInProgress ==
    /\ syncPlayEnabledAt = 0 /\ syncPlayReady /\ ~timeSyncWaiter /\ wrapperBound
    /\ isPlayerActive /\ hasCurrentPlayer /\ playbackRateSupported
    /\ playerWrapper = "local" /\ lastPlayQueueUpdate = FirstUpdate
    /\ inFlightUpdates = <<>> /\ dispatched = <<FirstUpdate.LastUpdate>>
    /\ last = Last("timeSyncUpdate", NoCommand, <<>>, <<>>, NoUpdate)
NotSessionInProgress == ~SessionInProgress

(* ---- the claims ---- *)
\* the actions the playback core issues to the player of the wrapper
LocalActions == {"unpause", "pause", "seek", "stop"}
HasLocalAction(acts) == \E i \in 1..Len(acts) : acts[i].a \in LocalActions
\* the handlers that receive a playback command: processCommand, and the
\* continuation of enableSyncPlay that replays the queued command
CommandHandlers == {"processCommand", "timeSyncUpdate"}

\* C1: while the player wrapper reports isRemote(), the handler of a playback
\* command issues no local unpause, pause, seek or stop, whatever the command,
\* a repetition of the last command whose time is past included
C1_NoLocalActionWhileRemote ==
    (playerWrapper = "remote" /\ last.op \in CommandHandlers) => ~HasLocalAction(last.acts)

\* C2: while SyncPlay is disabled no handler issues a player command: after
\* disableSyncPlay() the timers and waits of the playback core that were
\* pending stay silent
C2_NoPlayerCommandAfterDisable ==
    syncPlayEnabledAt = NoTime => last.acts = <<>>

\* C3: at most one scheduled-command timer, at most one syncTimeout timer and
\* at most one buffering-notify timer are pending in every reachable state
C3_AtMostOneTimerOfAKind ==
    /\ Cardinality(scheduledTimers) <= 1
    /\ Cardinality(syncTimers) <= 1
    /\ Cardinality(notifyTimers) <= 1

\* a command that arrived while a timer was pending cancelled it and armed
\* its own
C3_Witness ==
    /\ last.op = "processCommand"
    /\ last.cancelled > 0
    /\ Cardinality(scheduledTimers) = 1

\* C4: a command handed to applyCommand, directly or replayed from
\* queuedCommand, was emitted at or after the syncPlayEnabledAt of the session
\* that is current
C4_AppliedNotOlderThanSession ==
    last.applied # NoCommand =>
        /\ syncPlayEnabledAt # NoTime
        /\ last.applied.EmittedAt >= syncPlayEnabledAt

\* a queued command is replayed and applied in a session enabled later than
\* the first one
C4_Witness ==
    /\ last.op = "timeSyncUpdate"
    /\ last.applied # NoCommand
    /\ syncPlayEnabledAt = TimeStep

\* C5: processCommand called while SyncPlay is not enabled changes neither
\* queuedCommand nor lastPlaybackCommand, hands nothing to applyCommand, issues
\* no player action and arms no timer or wait
C5_DisabledDropsCommands ==
    [][(last'.op = "processCommand" /\ syncPlayEnabledAt = NoTime) =>
          /\ queuedCommand' = queuedCommand
          /\ lastPlaybackCommand' = lastPlaybackCommand
          /\ last'.applied = NoCommand
          /\ last'.acts = <<>>
          /\ scheduledTimers' = scheduledTimers
          /\ syncTimers' = syncTimers
          /\ waiters' = waiters]_vars

\* a command was received after the group was left
C5_Witness ==
    /\ last.op = "processCommand"
    /\ syncPlayEnabledAt = NoTime
    /\ groupJoined

\* C6: between handlers, queuedCommand is non-null only if syncPlayReady is
\* false
C6_QueuedOnlyWhileNotReady ==
    queuedCommand # NoCommand => ~syncPlayReady

\* a command was queued
C6_Witness ==
    /\ last.op = "processCommand"
    /\ queuedCommand # NoCommand

\* the checks of processCommand a replayed command has to pass
C7_Accepted(cmd) ==
    /\ cmd # NoCommand
    /\ syncPlayEnabledAt # NoTime
    /\ cmd.EmittedAt >= syncPlayEnabledAt
C7_Passes(cmd) ==
    /\ C7_Accepted(cmd)
    /\ IsPlaybackActive
    /\ cmd.PlaylistItemId = lastPlayQueueUpdate.PlaylistItemId

\* C7: the handler that flips syncPlayReady from false to true passes the
\* queued command through the checks of processCommand (enabledAt, player
\* activity, current playlist item) and leaves queuedCommand null
C7_ReadyFlushesQueuedCommand ==
    [][(~syncPlayReady /\ syncPlayReady') =>
          /\ queuedCommand' = NoCommand
          /\ last'.applied = (IF C7_Passes(queuedCommand) THEN queuedCommand ELSE NoCommand)
          /\ lastPlaybackCommand' = (IF C7_Accepted(queuedCommand) THEN queuedCommand
                                     ELSE lastPlaybackCommand)]_vars

\* the first time sync of a session applied the queued command
C7_Witness ==
    /\ last.op = "timeSyncUpdate"
    /\ syncPlayReady
    /\ last.applied # NoCommand
    /\ queuedCommand = NoCommand

\* C8: the QueueModel only moves to an update of a strictly greater LastUpdate,
\* and updatePlayQueue called with an update that is not newer than the last
\* one applied changes nothing and issues no player action
C8_OnlyNewerUpdatesApply ==
    [][/\ lastPlayQueueUpdate' # lastPlayQueueUpdate =>
             lastPlayQueueUpdate'.LastUpdate > lastPlayQueueUpdate.LastUpdate
       /\ (last'.op = "updatePlayQueue"
           /\ last'.received.LastUpdate <= lastPlayQueueUpdate.LastUpdate) =>
             /\ lastPlayQueueUpdate' = lastPlayQueueUpdate
             /\ inFlightUpdates' = inFlightUpdates
             /\ last'.acts = <<>>
             /\ last'.update = NoUpdate]_vars

\* an update that is not newer than the applied one was received
C8_Witness ==
    /\ last.op = "updatePlayQueue"
    /\ last.received.LastUpdate <= lastPlayQueueUpdate.LastUpdate
    /\ last.received # lastPlayQueueUpdate

C10_AppliedOnlyForCurrentItem ==
    /\ last.applied # NoCommand =>
          /\ last.applied.EmittedAt >= syncPlayEnabledAt
          /\ \/ last.applied.PlaylistItemId = lastPlayQueueUpdate.PlaylistItemId
             \/ last.applied.Command = "Stop"
    /\ (last.op \in CommandHandlers /\ last.applied = NoCommand) => last.acts = <<>>

\* a command for another playlist item than the current one was received and
\* kept as lastPlaybackCommand without reaching applyCommand
C10_Witness ==
    /\ last.op = "processCommand"
    /\ commandsReceived = 1
    /\ last.applied = NoCommand
    /\ lastPlaybackCommand # NoCommand
    /\ lastPlaybackCommand.Command = "Pause"
    /\ lastPlaybackCommand.PlaylistItemId # lastPlayQueueUpdate.PlaylistItemId
    /\ IsPlaybackActive

\* the operations of the controller that need playback access, and those
\* that need playlist access
PlaybackAccessOps == {"playPause", "unpause", "pause", "seek", "setCurrentPlaylistItem",
                      "nextTrack", "previousTrack"}
PlaylistAccessOps == ControllerOps \ PlaybackAccessOps
\* the access the group grants the current user
Granted(right) == groupInfo.kind = "listed" /\ groupInfo[right]

\* C11: an operation of the controller called by a user who lacks the access
\* it needs (no group info, no access list, not listed, or access not granted)
\* shows the message of the missing access, sends no request, acts on no
\* player and leaves no request waiting for its items
C11_DeniedOperationHasNoEffect ==
    [][(last'.op = "controller") =>
         /\ (last'.call \in PlaybackAccessOps /\ ~Granted("PlaybackAccess")) =>
               /\ last'.messages = <<"MessageSyncPlayMissingPlaybackAccess">>
               /\ last'.reqs = <<>> /\ last'.acts = <<>>
               /\ pendingItems' = pendingItems
         /\ (last'.call \in PlaylistAccessOps /\ ~Granted("PlaylistAccess")) =>
               /\ last'.messages = <<"MessageSyncPlayMissingPlaylistAccess">>
               /\ last'.reqs = <<>> /\ last'.acts = <<>>
               /\ pendingItems' = pendingItems]_vars

\* a user with playlist access only called pause and was shown the message;
\* a request of an earlier play still waits for its items
C11_Witness ==
    /\ last.op = "controller" /\ last.call = "pause"
    /\ groupInfo = [kind |-> "listed", PlaybackAccess |-> FALSE, PlaylistAccess |-> TRUE]
    /\ last.messages = <<"MessageSyncPlayMissingPlaybackAccess">>
    /\ playerWrapper = "local"
    /\ Len(pendingItems) = 1

\* the handlers that run as a consequence of a play queue update
QueueHandlers == {"playQueueUpdated", "followAnswered"}
\* the player actions a play queue update may start
QueueActions == {"play", "setCurrentPlaylistItem", "seek"}

\* C12: a handler of a play queue update that leaves followingGroupPlayback
\* false has started no local play, set-current-item or seek; the
\* continuation of the followGroupPlayback request of a NewPlaylist update
\* is such a handler
C12_NoQueueActionWhileHalted ==
    (last.op \in QueueHandlers /\ ~followingGroupPlayback) =>
        \A i \in 1..Len(last.acts) : last.acts[i].a \notin QueueActions

\* C13: while the player wrapper reports isRemote(), a command that reaches
\* applyCommand is recorded as lastCommand, and neither its handler nor the
\* continuation of a wait on a player event registered for a command sends a
\* request, a buffering request included, whether the command came once or
\* was repeated
C13_NoRequestWhileRemote ==
    playerWrapper = "remote" =>
        /\ (last.op \in CommandHandlers /\ last.applied # NoCommand) =>
              /\ lastCommand = last.applied
              /\ lastPlaybackCommand = last.applied
              /\ last.reqs = <<>>
        /\ last.resumed # <<>> => last.reqs = <<>>

\* the delay syncPlaybackTime measures in a state: the position the group is
\* at less the position 0 the player reports, in milliseconds
DriftMillis ==
    Number(lastCommand.PositionTicks) \div TicksPerMillisecond + (now + timeOffset - lastCommand.When)
\* a time update that gets as far as selecting a correction
DriftSelects ==
    /\ last'.op = "timeupdate"
    /\ lastCommand.Command = "Unpause"
    /\ syncEnabled /\ prefs.enableSyncCorrection
    /\ (now - lastSyncTime) * 2 >= prefs.maxDelaySpeedToSync
\* the correction a handler made
Chosen(acts) ==
    IF acts = <<>> THEN "None"
    ELSE IF acts[1].a = "setPlaybackRate" THEN "SpeedToSync"
    ELSE IF acts[1].a = "seek" THEN "SkipToSync"
    ELSE "Other"
\* SpeedToSync exactly when the rate is supported, useSpeedToSync holds and
\* minDelaySpeedToSync <= |diff| < maxDelaySpeedToSync; otherwise SkipToSync
\* exactly when useSkipToSync and |diff| >= minDelaySkipToSync; otherwise nothing
DriftRule ==
    LET d == Abs(DriftMillis)
        speed == /\ playbackRateSupported /\ prefs.useSpeedToSync
                 /\ prefs.minDelaySpeedToSync <= d /\ d < prefs.maxDelaySpeedToSync
        skip == ~speed /\ prefs.useSkipToSync /\ d >= prefs.minDelaySkipToSync
    IN /\ Chosen(last'.acts) = "SpeedToSync" <=> speed
       /\ Chosen(last'.acts) = "SkipToSync" <=> skip
       /\ Chosen(last'.acts) = "None" <=> (~speed /\ ~skip)

DuplicateApplied ==
    /\ last'.op \in CommandHandlers
    /\ last'.applied # NoCommand
    /\ lastCommand # NoCommand
    /\ lastCommand.When = last'.applied.When
    /\ lastCommand.PositionTicks = last'.applied.PositionTicks
    /\ lastCommand.Command = last'.applied.Command
    /\ lastCommand.PlaylistItemId = last'.applied.PlaylistItemId
\* its local firing time is not in the future
DuplicateInPast == remoteDateToLocal(timeOffset', last'.applied.When) <= now
\* the state of the player differs from what the command asks for
Diverges(command) ==
    CASE command.Command = "Unpause" -> PlayerIsPaused
      [] command.Command \in {"Pause", "Seek"} ->
           ~PlayerIsPaused \/ PlayerCurrentTime * TicksPerMillisecond # command.PositionTicks
      [] OTHER -> ~PlayerIsPaused
\* the player actions of a corrective dispatch of the command
IsCorrective(act, command) ==
    \/ act.a = "setPlaybackRate" /\ act.v = 1000
    \/ command.Command = "Unpause" /\ act.a = "unpause"
    \/ command.Command = "Pause" /\ act.a = "pause"
    \/ command.Command = "Stop" /\ act.a = "stop"
    \/ command.Command = "Seek" /\ act.a = "unpause"
    \/ /\ command.Command = "Seek" /\ act.a = "seek"
       /\ act.v - Number(command.PositionTicks) \in RandomOffsets

C17_NewCommandCancelsPendingTimers ==
    [][(last'.op \in CommandHandlers /\ last'.applied # NoCommand /\ ~DuplicateApplied) =>
         /\ lastCommand' = last'.applied
         /\ last'.cancelled = Cardinality(scheduledTimers) + Cardinality(syncTimers)
         /\ scheduledTimers' \subseteq {t \in scheduledTimers' : t.id = scheduledCommandTimeout'}]_vars

\* C18: once a newer command has been applied, the continuation or the
\* timeout of a wait on a player event that an older command registered
\* issues no player action and no request
C18_SupersededWaitIsSilent ==
    (\E i \in 1..Len(last.resumed) : last.resumed[i] # lastCommand) =>
        (last.acts = <<>> /\ last.reqs = <<>>)

\* C19: when a duplicate is ignored because its local firing time is in the
\* future, the scheduled-command timer of that very command is pending
C19_IgnoredDuplicateIsScheduled ==
    [][(DuplicateApplied /\ ~DuplicateInPast) =>
         \E t \in scheduledTimers :
            /\ t.id = scheduledCommandTimeout
            /\ t.kind = last'.applied.Command
            /\ t.at = remoteDateToLocal(timeOffset', last'.applied.When)
            /\ t.pos = IF t.kind = "Stop" THEN 0 ELSE last'.applied.PositionTicks]_vars

\* C21: a handler of playback commands changes the Manager's
\* lastPlaybackCommand only to a command that passed every check of
\* processCommand and was handed to applyCommand; a command dropped for an
\* inactive player or another playlist item leaves it as it was
C21_LastCommandOnlyOfAppliedCommand ==
    [][(last'.op \in CommandHandlers /\ lastPlaybackCommand' # lastPlaybackCommand) =>
         (last'.applied # NoCommand /\ lastPlaybackCommand' = last'.applied)]_vars

\* C22: a command whose EmittedAt is earlier than the EmittedAt of the
\* command applied last in the session is not applied: it is not handed to
\* applyCommand, lastCommand stays and no pending timer is cancelled
C22_OlderCommandIsDropped ==
    [][(/\ last'.op \in CommandHandlers
        /\ last'.applied # NoCommand
        /\ lastCommand # NoCommand
        /\ lastPlaybackCommand = lastCommand
        /\ lastCommand.EmittedAt >= syncPlayEnabledAt) =>
         (last'.applied.EmittedAt < lastCommand.EmittedAt =>
             /\ lastCommand' = lastCommand
             /\ last'.cancelled = 0
             /\ last'.acts = <<>>
             /\ scheduledTimers' = scheduledTimers)]_vars

\* a handler hands applyCommand a command that is not the one lastCommand
\* holds, and the player wrapper is not a remote one: the command is scheduled
NewCommandScheduled ==
    /\ last'.op \in CommandHandlers
    /\ last'.applied # NoCommand
    /\ ~DuplicateApplied
    /\ playerWrapper # "remote"
\* the names of the player actions a handler issued
ActionNames(acts) == {acts[i].a : i \in 1..Len(acts)}
\* the player actions of a command of that kind
ActionsOf(kind) ==
    CASE kind = "Unpause" -> {"unpause"}
      [] kind = "Pause" -> {"pause"}
      [] kind = "Stop" -> {"stop"}
      [] OTHER -> {"unpause", "seek"}

C24_SeekIfOffByMoreThanMinDelay ==
    [][/\ (NewCommandScheduled /\ last'.applied.Command = "Unpause"
              /\ remoteDateToLocal(timeOffset', last'.applied.When) > now) =>
            LET positionTicks == Number(last'.applied.PositionTicks)
                currentPositionTicks == PlayerCurrentTime * TicksPerMillisecond
            IN (\E i \in 1..Len(last'.acts) :
                    last'.acts[i].a = "seek" /\ last'.acts[i].v = positionTicks)
               <=> Abs(currentPositionTicks - positionTicks)
                      > prefs.minDelaySkipToSync * TicksPerMillisecond
       /\ (last'.op = "scheduledCommand"
              /\ \E t \in scheduledTimers \ scheduledTimers' : t.kind = "Unpause") =>
            "unpause" \in ActionNames(last'.acts)]_vars

\* C25: in every reachable state in which syncEnabled holds, lastCommand of
\* the playback core is an Unpause whose local fire time has passed; a step
\* that schedules a command leaves syncEnabled false, and only the expiry of
\* a syncTimeout timer makes it true
C25_SyncEnabledOnlyDuringUnpause ==
    [][/\ syncEnabled' =>
            /\ lastCommand'.Command = "Unpause"
            /\ remoteDateToLocal(timeOffset', lastCommand'.When) <= now'
       /\ (syncEnabled' /\ ~syncEnabled) => last'.op = "syncTimeout"
       /\ (last'.op \in CommandHandlers /\ last'.applied # NoCommand /\ ~DuplicateApplied
              /\ playerWrapper # "remote") => ~syncEnabled']_vars

\* a command of that kind fires in this step on the local player: at once
\* when it is scheduled after its time, or dispatched again after its time
\* because the state of the player differs, or from its timer
Fires(kind) ==
    \/ /\ NewCommandScheduled
       /\ last'.applied.Command = kind
       /\ remoteDateToLocal(timeOffset', last'.applied.When) <= now
    \/ /\ DuplicateApplied /\ DuplicateInPast /\ Diverges(last'.applied)
       /\ playerWrapper = "local"
       /\ last'.applied.Command = kind
    \/ /\ last'.op = "scheduledCommand"
       /\ playerWrapper = "local"
       /\ \E t \in scheduledTimers \ scheduledTimers' : t.kind = kind
\* the position the command that fires carries
FiredTicks ==
    IF last'.op = "scheduledCommand"
    THEN (CHOOSE t \in scheduledTimers \ scheduledTimers' : TRUE).pos
    ELSE last'.applied.PositionTicks
\* the positions of the local seeks a handler issued, in order
Seeks(acts) ==
    LET IsSeek(x) == x.a = "seek"
        seeks == SelectSeq(acts, IsSeek)
    IN [i \in 1..Len(seeks) |-> seeks[i].v]
\* the positions the pending waits on the event will seek to, in order
Awaited(ws, event) ==
    LET IsOn(w) == w.event = event
        on == SelectSeq(ws, IsOn)
    IN [i \in 1..Len(on) |-> on[i].pos]

\* C26: a Pause that fires on the active local player issues a local pause
\* and registers one wait on 'pause' of 500 ms for its PositionTicks; the
\* 'pause' event ends every such wait with one local seek to its position,
\* the timeout, no earlier than 500 ms later, ends it with one local seek as
\* well, and a wait ends in no other way: one seek per Pause, never two, never
\* none
C26_PauseThenExactlyOneSeek ==
    [][/\ Fires("Pause") =>
            /\ "pause" \in ActionNames(last'.acts)
            /\ Seeks(last'.acts) = <<>>
            /\ Len(waiters') = Len(waiters) + 1
            /\ SubSeq(waiters', 1, Len(waiters)) = waiters
            /\ LET w == waiters'[Len(waiters')]
               IN /\ w.event = "pause"
                  /\ w.pos = FiredTicks
                  /\ w.at = now + 500
       /\ playerWrapper = "local" =>
            IF last'.op = "pause"
            THEN /\ Seeks(last'.acts) = Awaited(waiters, "pause")
                 /\ Awaited(waiters', "pause") = <<>>
            ELSE IF last'.op = "waitTimeout"
            THEN \E i \in 1..Len(waiters) :
                    /\ waiters[i].at # NoTime /\ waiters[i].at <= now
                    /\ waiters' = SubSeq(waiters, 1, i - 1) \o SubSeq(waiters, i + 1, Len(waiters))
                    /\ Seeks(last'.acts) = <<waiters[i].pos>>
            ELSE \/ Awaited(waiters', "pause") = Awaited(waiters, "pause")
                 \/ Fires("Pause")]_vars

\* the 'pause' event ended the wait of the Pause that is the last command:
\* one local seek to its position
C26_Witness ==
    /\ last.op = "pause"
    /\ playerWrapper = "local"
    /\ lastCommand.Command = "Pause"
    /\ last.resumed = <<lastCommand>>
    /\ Seeks(last.acts) = <<lastCommand.PositionTicks>>
    /\ waiters = <<>>

\* the player actions a handler issued other than the reset of the rate
Moves(acts) ==
    LET IsMove(x) == x.a # "setPlaybackRate"
    IN SelectSeq(acts, IsMove)

\* C27: a Seek that fires on the local player issues local unpause, then
\* local seek to its position, and registers one wait on 'playing' of 30 s;
\* the 'playing' event ends each such wait with a local pause and a
\* buffering-done request; the timeout, no earlier than 30 s later, ends it
\* with a seek to the same position and no request; no other step sends a
\* buffering-done request
C27_SeekThenPauseOnPlaying ==
    [][playerWrapper = "local" =>
         /\ Fires("Seek") =>
               /\ Len(Moves(last'.acts)) = 2
               /\ Moves(last'.acts)[1].a = "unpause"
               /\ Moves(last'.acts)[2].a = "seek"
               /\ \/ Moves(last'.acts)[2].v = FiredTicks
                  \/ /\ DuplicateApplied
                     /\ Moves(last'.acts)[2].v - Number(FiredTicks) \in RandomOffsets
               /\ last'.reqs = <<>>
               /\ Len(waiters') = Len(waiters) + 1
               /\ SubSeq(waiters', 1, Len(waiters)) = waiters
               /\ LET w == waiters'[Len(waiters')]
                  IN /\ w.event = "playing"
                     /\ w.pos = Moves(last'.acts)[2].v
                     /\ w.at = now + 30000
         /\ IF last'.op = "playing"
            THEN /\ Len(last'.acts) = Len(Awaited(waiters, "playing"))
                 /\ \A i \in 1..Len(last'.acts) : last'.acts[i].a = "pause"
                 /\ Len(last'.reqs) = Len(last'.acts)
                 /\ \A i \in 1..Len(last'.reqs) : last'.reqs[i] = [r |-> "buffering", done |-> TRUE]
                 /\ Awaited(waiters', "playing") = <<>>
            ELSE /\ last'.reqs = <<>>
                 /\ \/ Awaited(waiters', "playing") = Awaited(waiters, "playing")
                    \/ Fires("Seek")
                    \/ /\ last'.op = "waitTimeout"
                       /\ \E i \in 1..Len(waiters) :
                             /\ waiters[i].event = "playing"
                             /\ waiters[i].at <= now
                             /\ waiters' = SubSeq(waiters, 1, i - 1)
                                              \o SubSeq(waiters, i + 1, Len(waiters))
                             /\ last'.acts = <<[a |-> "seek", v |-> waiters[i].pos]>>]_vars

\* no 'playing' event came for 30 s after a Seek fired: the seek was issued
\* again and no request was sent
C27_Witness ==
    /\ last.op = "waitTimeout"
    /\ playerWrapper = "local"
    /\ lastCommand.Command = "Seek"
    /\ last.resumed = <<lastCommand>>
    /\ last.acts = <<[a |-> "seek", v |-> lastCommand.PositionTicks]>>
    /\ last.reqs = <<>>
    /\ now >= 30000

\* C28: a time update of the player issues a drift correction (a playback
\* rate, a seek) only if syncEnabled holds, sync correction is enabled in the
\* settings, playback is active, lastCommand is an Unpause and the player has
\* not been waiting for longer than the buffering threshold
C28_CorrectionOnlyWhileSyncing ==
    [][(last'.op = "timeupdate" /\ last'.acts # <<>>) =>
         /\ syncEnabled
         /\ prefs.enableSyncCorrection
         /\ \/ playerWrapper = "remote"
            \/ playerWrapper = "local" /\ isPlayerActive
         /\ lastCommand.Command = "Unpause"
         /\ \/ lastPlaybackWaiting = NoTime
            \/ now - lastPlaybackWaiting <= minBufferingThresholdMillis]_vars

\* the player had started to wait, for less than the buffering threshold,
\* when a time update corrected the drift
C28_Witness ==
    /\ last.op = "timeupdate"
    /\ last.acts # <<>>
    /\ lastPlaybackWaiting # NoTime
    /\ lastCommand.Command = "Unpause"
    /\ ~syncEnabled

C30_CooldownAfterCorrection ==
    [][/\ (last'.op = "timeupdate" /\ last'.acts # <<>>) =>
            LET d == DriftMillis
                T == prefs.speedToSyncDuration
                cooldown == IF Chosen(last'.acts) = "SkipToSync" THEN prefs.maxDelaySpeedToSync \div 2
                            ELSE IF d * 10 <= 0 - T THEN (Abs(d) * 10) \div 9 ELSE T
            IN /\ Len(last'.acts) = 1
               /\ Chosen(last'.acts) \in {"SpeedToSync", "SkipToSync"}
               /\ Chosen(last'.acts) = "SkipToSync" =>
                     last'.acts[1].v = Number(lastCommand.PositionTicks)
                                          + (now + timeOffset - lastCommand.When) * TicksPerMillisecond
               /\ ~syncEnabled'
               /\ \E t \in syncTimers' :
                     /\ syncTimers' = syncTimers \cup {t}
                     /\ t \notin syncTimers
                     /\ t.id = syncTimeout'
                     /\ t.at = now + cooldown
       /\ (last'.op = "timeupdate" /\ ~syncEnabled) => (last'.acts = <<>> /\ ~syncEnabled')
       /\ (syncEnabled' /\ ~syncEnabled) =>
            /\ last'.op = "syncTimeout"
            /\ \E t \in syncTimers : syncTimers' = syncTimers \ {t} /\ t.at <= now
       /\ last'.op = "syncTimeout" => syncEnabled']_vars

\* a SkipToSync: one seek, sync disabled, the timer pending for
\* maxDelaySpeedToSync / 2
C30_Witness ==
    /\ last.op = "timeupdate"
    /\ Chosen(last.acts) = "SkipToSync"
    /\ Len(last.acts) = 1
    /\ ~syncEnabled
    /\ \E t \in syncTimers : t.id = syncTimeout /\ t.kind = "skip"
                                /\ t.at = now + prefs.maxDelaySpeedToSync \div 2

\* the requests onPlaying sends itself, before the waits on 'playing' resume:
\* each resumed wait sends one request
OnPlayingReports ==
    /\ last'.op = "playing"
    /\ Len(last'.reqs) > Len(last'.resumed)

\* C31: onPlaying sends a buffering request with BufferingDone true only if a
\* buffering request with BufferingDone false was sent since the preceding
\* 'playing' event; checked where the notifyBuffering timer is not late, that
\* is, where 'waiting' events re-armed it before it fired
C31_DoneOnlyAfterBufferingReported ==
    [][(OnPlayingReports /\ \A t \in notifyTimers : t.at > now)
          => (last'.reqs[1].done /\ bufferingReported)]_vars

\* C32: once the local play request of a play queue update has settled, the
\* update leads to one of the two outcomes: either its wait on
\* 'playbackstart' is pending, which ends in the ready report or in the halt,
\* or the client halts group playback at once (followingGroupPlayback false,
\* setIgnoreWait(true) sent); so also when the play request fails
C32_SettledPlayLeadsToReadyOrHalt ==
    [][last'.op = "playSettled" =>
          \/ Len(readyWaiters') = Len(readyWaiters) + 1
          \/ /\ ~followingGroupPlayback'
             /\ \E i \in DOMAIN last'.reqs : last'.reqs[i] = [r |-> "setIgnoreWait", done |-> TRUE]]_vars

\* C33: while SyncPlay is disabled (before the first GroupJoined and after
\* disableSyncPlay) the group info is null and the access checks of the
\* manager are false
C33_NoGroupInfoWhileDisabled ==
    ~isSyncPlayEnabled =>
        /\ groupInfo = NoGroupInfo
        /\ ~hasPlaybackAccess
        /\ ~hasPlaylistAccess

\* C34: when the time synchronization is lost while the session is enabled
\* and ready, syncPlayReady becomes false
C34_TimeSyncLostClearsReady ==
    [][(last'.op = "timeSyncLost" /\ isSyncPlayEnabled /\ syncPlayReady) => ~syncPlayReady']_vars

\* the i-th play queue update in flight is the one that was answered
Answered(i) ==
    /\ i \in 1..Len(inFlightUpdates)
    /\ inFlightUpdates' = SubSeq(inFlightUpdates, 1, i - 1)
                             \o SubSeq(inFlightUpdates, i + 1, Len(inFlightUpdates))

\* C35: with a remote player a play queue update that is newer than the last
\* one applied is taken by the QueueModel, during the call or when
\* onPlayQueueUpdate answers, and the continuation of updatePlayQueue issues
\* no player action and no request, starts no playback and registers no wait
\* on 'playbackstart', whatever the reason
C35_RemoteUpdateOnlyUpdatesModel ==
    [][playerWrapper = "remote" =>
          /\ (last'.op = "updatePlayQueue" /\ last'.received.LastUpdate > lastPlayQueueUpdate.LastUpdate) =>
                \/ lastPlayQueueUpdate' = last'.received
                \/ inFlightUpdates' = Append(inFlightUpdates, [update |-> last'.received, saved |-> FALSE])
          /\ last'.op = "playQueueUpdated" =>
                /\ last'.acts = <<>>
                /\ last'.reqs = <<>>
                /\ UNCHANGED <<readyWaiters, pendingPlay, pendingFollow, followingGroupPlayback, dispatched>>
                /\ \E i \in 1..Len(inFlightUpdates) :
                      /\ Answered(i)
                      /\ lastPlayQueueUpdate'.LastUpdate >= inFlightUpdates[i].update.LastUpdate
                      /\ inFlightUpdates[i].update.LastUpdate > lastPlayQueueUpdate.LastUpdate
                            => lastPlayQueueUpdate' = inFlightUpdates[i].update]_vars

\* a NewPlaylist update with an item was applied to the QueueModel with a
\* remote player, and nothing was started
C35_Witness ==
    /\ last.op = "playQueueUpdated"
    /\ playerWrapper = "remote"
    /\ lastPlayQueueUpdate.Reason = "NewPlaylist"
    /\ lastPlayQueueUpdate.PlaylistItemId # 0
    /\ inFlightUpdates = <<>>
    /\ dispatched = <<>>
    /\ pendingPlay = 0

\* C36: syncPlayReady is true only while SyncPlay is enabled
C36_ReadyOnlyWhileEnabled ==
    syncPlayReady => isSyncPlayEnabled

\* C37: the first command a session applies (no command was taken since
\* disableSyncPlay or since the start) is treated as a new command on the
\* local player: it becomes lastCommand and is scheduled, by a timer at its
\* local time if that is in the future, by its player actions at once if not;
\* checked where no timer and no wait of an earlier command is pending
C37_FirstCommandOfSessionIsNew ==
    [][(/\ last'.op \in CommandHandlers
        /\ last'.applied # NoCommand
        /\ lastPlaybackCommand = NoCommand
        /\ scheduledTimers = {} /\ waiters = <<>>
        /\ playerWrapper = "local") =>
          /\ lastCommand' = last'.applied
          /\ IF remoteDateToLocal(timeOffset', last'.applied.When) > now
             THEN \E t \in scheduledTimers' :
                     /\ t.id = scheduledCommandTimeout'
                     /\ t.kind = last'.applied.Command
                     /\ t.at = remoteDateToLocal(timeOffset', last'.applied.When)
             ELSE ActionsOf(last'.applied.Command) \subseteq ActionNames(last'.acts)]_vars

\* C38: while SyncPlay is enabled and not ready, a command that is not older
\* than the session takes the place of the queued command and nothing is
\* applied; the handler that makes the session ready hands applyCommand the
\* command queued last or nothing, and leaves no command queued
C38_OnlyLastQueuedCommandIsKept ==
    [][/\ (/\ last'.op = "processCommand"
           /\ isSyncPlayEnabled /\ ~syncPlayReady
           /\ last'.command.EmittedAt >= syncPlayEnabledAt) =>
             /\ queuedCommand' = last'.command
             /\ last'.applied = NoCommand
             /\ last'.acts = <<>>
             /\ lastCommand' = lastCommand
       /\ (~syncPlayReady /\ syncPlayReady') =>
             /\ last'.applied \in {queuedCommand, NoCommand}
             /\ queuedCommand' = NoCommand]_vars

\* the second command of a session that is not ready was queued
C38_Witness ==
    /\ last.op = "processCommand"
    /\ commandsReceived = 2
    /\ isSyncPlayEnabled /\ ~syncPlayReady
    /\ last.command.EmittedAt >= syncPlayEnabledAt
    /\ queuedCommand = last.command

\* C39: a 'playbackstart' event causes at most one ready report: at most one
\* local pause and at most one buffering request with BufferingDone true
C39_OneReadyReportPerPlaybackStart ==
    last.op = "playbackstart" =>
        /\ Cardinality({i \in DOMAIN last.acts : last.acts[i].a = "pause"}) <= 1
        /\ Cardinality({i \in DOMAIN last.reqs : last.reqs[i] = [r |-> "buffering", done |-> TRUE]}) <= 1

\* the handlers of the playback core: commands, its timers, the timeouts of
\* its waits and the player events
CoreHandlers ==
    CommandHandlers \cup {"scheduledCommand", "syncTimeout", "waitTimeout", "unpause", "pause",
                          "playing", "timeupdate"}

\* C40: while the player wrapper reports isPlaybackActive() = false no handler
\* of the playback core issues a local unpause, pause, seek or stop: not a
\* command timer that fires nor a wait that ends after playback has stopped
C40_NoLocalActionWhileInactive ==
    (last.op \in CoreHandlers /\ ~IsPlaybackActive) => ~HasLocalAction(last.acts)

\* the timer of a Pause fired after playback had stopped, and the player was
\* left alone
C40_Witness ==
    /\ last.op = "scheduledCommand"
    /\ playerWrapper = "none"
    /\ ~IsPlaybackActive
    /\ lastCommand = NoCommand
    /\ \E i \in 1..Len(waiters) : waiters[i].event = "pause"
    /\ last.acts = <<>>

====
